---- MODULE Spec2Model ----
(***************************************************************************)
(* Personal finance manager: the ledger store (transactions, budgets), the *)
(* transaction aggregator (src/transactions.py), the budget evaluator      *)
(* (src/budget.py), the report composer (src/reports.py), the accounts and *)
(* the session (src/auth.py) and the backups (src/backup.py).              *)
(*                                                                         *)
(* Conventions                                                             *)
(*  - An Optional[T] argument is a set with at most one element: {} is     *)
(*    None, {v} is the value v.                                            *)
(*  - A calendar date (datetime.date) is a triple <<y, m, d>>.  The store  *)
(*    keeps a date as the fixed-width ISO text 'YYYY-MM-DD' that sqlite3's *)
(*    default adapter writes; the text is modelled by the number whose     *)
(*    decimal digits are YYYYMMDD, on which numeric order is the           *)
(*    lexicographic order SQLite applies to the text.                      *)
(*  - Amounts are whole currency units: floats on which Python's float     *)
(*    addition and subtraction are exact.                                  *)
(*  - A ratio a / b (a float division) is kept as the pair <<a, b>>.       *)
(***************************************************************************)
EXTENDS Integers, Sequences, FiniteSets, TLC

VARIABLES
  transactions,   \* table transactions: row id -> row
  nextId,         \* AUTOINCREMENT counter of table transactions
  budgets,        \* table budgets: set of rows, unique on (user_id, category, month, year)
  clock,          \* CURRENT_TIMESTAMP of the store, in seconds
  plan,           \* how the engine executes the ORDER BY of get_transactions
  users,          \* table users: set of rows, unique on id and on username
  nextUserId,     \* AUTOINCREMENT counter of table users
  current_user_id, \* auth._current_user_id: {} is None
  files           \* the files beside the database file: path -> content

vars == <<transactions, nextId, budgets, clock, plan, users, nextUserId, current_user_id, files>>

----------------------------------------------------------------------------
(* Bounds of the model.                                                    *)

\* rows ever inserted into table transactions
MaxTx == 2
\* seconds that pass on the store's clock
MaxClock == 1

----------------------------------------------------------------------------
(* src/models.py                                                           *)

INCOME_CATEGORIES ==
  {"Salary", "Freelance", "Investment", "Bonus", "Other Income"}

EXPENSE_CATEGORIES ==
  {"Food", "Rent", "Utilities", "Transportation", "Entertainment",
   "Healthcare", "Education", "Shopping", "Bills", "Other Expense"}

ALL_CATEGORIES == INCOME_CATEGORIES \cup EXPENSE_CATEGORIES

----------------------------------------------------------------------------
(* Calendar: datetime.date, timedelta(days=1) and the ISO text of a date.  *)

IsLeap(y) == (y % 4 = 0) /\ ((y % 100 # 0) \/ (y % 400 = 0))

DaysInMonth(y, m) ==
  IF m = 2 THEN (IF IsLeap(y) THEN 29 ELSE 28)
  ELSE IF m \in {4, 6, 9, 11} THEN 30 ELSE 31

\* date(y, m, d)
date(y, m, d) == <<y, m, d>>

\* d - timedelta(days=1)
MinusOneDay(d) ==
  IF d[3] > 1 THEN <<d[1], d[2], d[3] - 1>>
  ELSE IF d[2] > 1 THEN <<d[1], d[2] - 1, DaysInMonth(d[1], d[2] - 1)>>
  ELSE <<d[1] - 1, 12, 31>>

\* the text sqlite3 stores for a date, as the number YYYYMMDD
IsoFormat(d) == d[1] * 10000 + d[2] * 100 + d[3]

\* the year and the month read back from a stored date text
IsoYear(k) == k \div 10000
IsoMonth(k) == (k \div 100) % 100

----------------------------------------------------------------------------
(* Return values: (success, message, transaction_id)                       *)

Ret(ok, msg, id) == [ok |-> ok, msg |-> msg, id |-> id]

OptionValue(opt) == CHOOSE x \in opt : TRUE

----------------------------------------------------------------------------
(* src/transactions.py: add_transaction                                    *)

\* the CHECK constraints of table transactions
TransactionRowOk(row) ==
  /\ row.type \in {"income", "expense"}
  /\ row.amount > 0

\* add_transaction without its category check
Mut_AddCategoryOk(transaction_type, category) == TRUE

\* "if category not in ALL_CATEGORIES" passes
AddCategoryOk(transaction_type, category) == category \in ALL_CATEGORIES

\* the row add_transaction inserts
NewRow(user_id, transaction_type, category, amount, description, transaction_date, today, now) ==
  [id |-> nextId,
   user_id |-> user_id,
   type |-> transaction_type,
   category |-> category,
   amount |-> amount,
   description |-> IF description = {} THEN "" ELSE OptionValue(description),
   date |-> IsoFormat(IF transaction_date = {} THEN today ELSE OptionValue(transaction_date)),
   created_at |-> now]

\* what add_transaction returns
add_transaction_ret(user_id, transaction_type, category, amount, description, transaction_date, today, now) ==
  IF transaction_type \notin {"income", "expense"}
  THEN Ret(FALSE, "Transaction type must be 'income' or 'expense'.", {})
  ELSE IF ~AddCategoryOk(transaction_type, category)
  THEN Ret(FALSE, "Invalid category.", {})
  ELSE IF amount <= 0
  THEN Ret(FALSE, "Amount must be greater than 0.", {})
  ELSE IF ~TransactionRowOk(NewRow(user_id, transaction_type, category, amount, description, transaction_date, today, now))
  THEN Ret(FALSE, "Failed to add transaction", {})
  ELSE Ret(TRUE, "added successfully!", {nextId})

\* table transactions after add_transaction
add_transaction_rows(user_id, transaction_type, category, amount, description, transaction_date, today, now) ==
  IF add_transaction_ret(user_id, transaction_type, category, amount, description, transaction_date, today, now).ok
  THEN [i \in DOMAIN transactions \cup {nextId} |->
          IF i = nextId
          THEN NewRow(user_id, transaction_type, category, amount, description, transaction_date, today, now)
          ELSE transactions[i]]
  ELSE transactions

\* the AUTOINCREMENT counter after add_transaction
add_transaction_seq(user_id, transaction_type, category, amount, description, transaction_date, today, now) ==
  IF add_transaction_ret(user_id, transaction_type, category, amount, description, transaction_date, today, now).ok
  THEN nextId + 1
  ELSE nextId

\* what add_transaction does to the store
add_transaction(user_id, transaction_type, category, amount, description, transaction_date, today, now) ==
  /\ transactions' = add_transaction_rows(user_id, transaction_type, category, amount, description, transaction_date, today, now)
  /\ nextId' = add_transaction_seq(user_id, transaction_type, category, amount, description, transaction_date, today, now)
  /\ clock' = now
  /\ UNCHANGED <<budgets, plan, users, nextUserId, current_user_id, files>>

----------------------------------------------------------------------------
(* src/transactions.py: update_transaction, delete_transaction             *)

allowed_fields == {"type", "category", "amount", "description", "date"}

\* updates = {k: v for k, v in kwargs.items() if k in allowed_fields and v is not None}
\* kwargs maps a keyword to an Optional value
UpdatesOf(kwargs) ==
  [k \in {k \in DOMAIN kwargs \cap allowed_fields : kwargs[k] # {}} |-> OptionValue(kwargs[k])]

\* update_transaction without its check of the category
Mut_UpdateCategoryOk(updates) == TRUE

\* "if 'category' in updates and updates['category'] not in ALL_CATEGORIES" passes
UpdateCategoryOk(updates) ==
  ("category" \in DOMAIN updates) => (updates["category"] \in ALL_CATEGORIES)

\* an UPDATE that writes the description column on every call
Mut_UpdatedRow(row, updates) ==
  [f \in DOMAIN row |->
     IF f \in DOMAIN updates
     THEN (IF f = "date" THEN IsoFormat(updates[f]) ELSE updates[f])
     ELSE IF f = "description" THEN "" ELSE row[f]]

\* the row after UPDATE transactions SET k = ? for every k of updates
UpdatedRow(row, updates) ==
  [f \in DOMAIN row |->
     IF f \in DOMAIN updates
     THEN (IF f = "date" THEN IsoFormat(updates[f]) ELSE updates[f])
     ELSE row[f]]

\* the lookup without "AND user_id = ?"
Mut_OwnsTransaction(transaction_id, user_id) ==
  transaction_id \in DOMAIN transactions

\* SELECT id FROM transactions WHERE id = ? AND user_id = ? finds a row
OwnsTransaction(transaction_id, user_id) ==
  /\ transaction_id \in DOMAIN transactions
  /\ transactions[transaction_id].user_id = user_id

\* what update_transaction returns
update_transaction_ret(transaction_id, user_id, kwargs) ==
  LET updates == UpdatesOf(kwargs) IN
  IF DOMAIN updates = {}
  THEN Ret(FALSE, "No valid fields to update.", {})
  ELSE IF "type" \in DOMAIN updates /\ updates["type"] \notin {"income", "expense"}
  THEN Ret(FALSE, "Transaction type must be 'income' or 'expense'.", {})
  ELSE IF ~UpdateCategoryOk(updates)
  THEN Ret(FALSE, "Invalid category.", {})
  ELSE IF "amount" \in DOMAIN updates /\ updates["amount"] <= 0
  THEN Ret(FALSE, "Amount must be greater than 0.", {})
  ELSE IF ~OwnsTransaction(transaction_id, user_id)
  THEN Ret(FALSE, "Transaction not found or access denied.", {})
  ELSE IF ~TransactionRowOk(UpdatedRow(transactions[transaction_id], updates))
  THEN Ret(FALSE, "Failed to update transaction", {})
  ELSE Ret(TRUE, "Transaction updated successfully!", {})

\* table transactions after update_transaction
update_transaction_rows(transaction_id, user_id, kwargs) ==
  IF update_transaction_ret(transaction_id, user_id, kwargs).ok
  THEN [transactions EXCEPT ![transaction_id] = UpdatedRow(@, UpdatesOf(kwargs))]
  ELSE transactions

\* what update_transaction does to the store
update_transaction(transaction_id, user_id, kwargs) ==
  /\ transactions' = update_transaction_rows(transaction_id, user_id, kwargs)
  /\ UNCHANGED <<nextId, budgets, clock, plan, users, nextUserId, current_user_id, files>>

\* what delete_transaction returns
delete_transaction_ret(transaction_id, user_id) ==
  IF ~OwnsTransaction(transaction_id, user_id)
  THEN Ret(FALSE, "Transaction not found or access denied.", {})
  ELSE Ret(TRUE, "Transaction deleted successfully!", {})

\* DELETE FROM transactions WHERE user_id = ?
Mut_delete_transaction_rows(transaction_id, user_id) ==
  IF delete_transaction_ret(transaction_id, user_id).ok
  THEN [i \in {j \in DOMAIN transactions : transactions[j].user_id # user_id} |-> transactions[i]]
  ELSE transactions

\* table transactions after delete_transaction
delete_transaction_rows(transaction_id, user_id) ==
  IF delete_transaction_ret(transaction_id, user_id).ok
  THEN [i \in DOMAIN transactions \ {transaction_id} |-> transactions[i]]
  ELSE transactions

\* what delete_transaction does to the store
delete_transaction(transaction_id, user_id) ==
  /\ transactions' = delete_transaction_rows(transaction_id, user_id)
  /\ UNCHANGED <<nextId, budgets, clock, plan, users, nextUserId, current_user_id, files>>

\* SELECT * FROM transactions WHERE id = ? AND user_id = ?: the row, or None
get_transaction_by_id(transaction_id, user_id) ==
  IF OwnsTransaction(transaction_id, user_id) THEN {transactions[transaction_id]} ELSE {}

----------------------------------------------------------------------------
(* src/transactions.py: get_transactions, get_total_income,                *)
(* get_total_expenses                                                      *)

\* the WHERE clause with "date < ?" for "date <= ?"
Mut_RowMatches(row, user_id, start_date, end_date, category, transaction_type) ==
  /\ row.user_id = user_id
  /\ \A s \in start_date : row.date >= IsoFormat(s)
  /\ \A e \in end_date : row.date < IsoFormat(e)
  /\ \A c \in category : (c # "") => (row.category = c)
  /\ \A t \in transaction_type : (t # "") => (row.type = t)

\* WHERE user_id = ? [AND date >= ?] [AND date <= ?] [AND category = ?] [AND type = ?]
RowMatches(row, user_id, start_date, end_date, category, transaction_type) ==
  /\ row.user_id = user_id
  /\ \A s \in start_date : row.date >= IsoFormat(s)
  /\ \A e \in end_date : row.date <= IsoFormat(e)
  /\ \A c \in category : (c # "") => (row.category = c)
  /\ \A t \in transaction_type : (t # "") => (row.type = t)

\* ORDER BY names no key after created_at, whose value CURRENT_TIMESTAMP has a
\* resolution of one second: rows equal on both keys come out as the engine
\* reads them. "index": the rows of one date read backwards from
\* idx_transactions_user_date, the later rowid first; "sort": the rows read in
\* rowid order and sorted, the earlier rowid first.
QueryPlans == {"index", "sort"}

\* ORDER BY date DESC, created_at DESC: a comes no later than b
OrderedBefore(a, b) ==
  \/ a.date > b.date
  \/ (a.date = b.date /\ a.created_at > b.created_at)
  \/ (a.date = b.date /\ a.created_at = b.created_at
        /\ IF plan = "index" THEN a.id >= b.id ELSE a.id <= b.id)

\* the rows with the ids of S in the order of ORDER BY
RECURSIVE OrderRows(_)
OrderRows(S) ==
  IF S = {} THEN <<>>
  ELSE LET first == CHOOSE i \in S :
                      \A j \in S : OrderedBefore(transactions[i], transactions[j])
       IN <<transactions[first]>> \o OrderRows(S \ {first})

\* LIMIT ?, added only "if limit:"
ApplyLimit(rows, limit) ==
  IF limit = {} \/ limit = {0} THEN rows
  ELSE LET n == CHOOSE x \in limit : TRUE
       IN IF n < 0 \/ n >= Len(rows) THEN rows ELSE SubSeq(rows, 1, n)

\* the query without "user_id = ?"
Mut_get_transactions(user_id, start_date, end_date, category, transaction_type, limit) ==
  ApplyLimit(
    OrderRows({i \in DOMAIN transactions :
                 RowMatches(transactions[i], transactions[i].user_id, start_date, end_date,
                            category, transaction_type)}),
    limit)

get_transactions(user_id, start_date, end_date, category, transaction_type, limit) ==
  ApplyLimit(
    OrderRows({i \in DOMAIN transactions :
                 RowMatches(transactions[i], user_id, start_date, end_date,
                            category, transaction_type)}),
    limit)

\* sum(t['amount'] for t in rows)
RECURSIVE SumAmounts(_)
SumAmounts(rows) ==
  IF rows = <<>> THEN 0
  ELSE SumAmounts(SubSeq(rows, 1, Len(rows) - 1)) + rows[Len(rows)].amount

\* get_total_income without its transaction_type='income' filter
Mut_get_total_income(user_id, start_date, end_date) ==
  SumAmounts(get_transactions(user_id, start_date, end_date, {}, {}, {}))

get_total_income(user_id, start_date, end_date) ==
  SumAmounts(get_transactions(user_id, start_date, end_date, {}, {"income"}, {}))

get_total_expenses(user_id, start_date, end_date) ==
  SumAmounts(get_transactions(user_id, start_date, end_date, {}, {"expense"}, {}))

----------------------------------------------------------------------------
(* src/reports.py                                                          *)

calculate_savings(user_id, start_date, end_date) ==
  get_total_income(user_id, {start_date}, {end_date})
    - get_total_expenses(user_id, {start_date}, {end_date})

\* start_date of generate_monthly_report
ReportStartDate(month, year) == date(year, month, 1)

\* December rolled over to January of the same year
Mut_ReportEndDate_NoRollover(month, year) ==
  MinusOneDay(IF month = 12 THEN date(year, 1, 1) ELSE date(year, month + 1, 1))

\* the end date without the day subtracted
Mut_ReportEndDate(month, year) ==
  IF month = 12 THEN date(year + 1, 1, 1) ELSE date(year, month + 1, 1)

\* end_date of generate_monthly_report: the first day of the next month, minus one day
ReportEndDate(month, year) ==
  MinusOneDay(IF month = 12 THEN date(year + 1, 1, 1) ELSE date(year, month + 1, 1))

\* d.get(k, default) and d[k] = v on a dict
DictGet(d, k, default) == IF k \in DOMAIN d THEN d[k] ELSE default
DictSet(d, k, v) == [x \in DOMAIN d \cup {k} |-> IF x = k THEN v ELSE d[x]]

EmptyDict == [x \in {} |-> 0]

\* the pass with "=" for "+=": a category keeps the amount of its last row
RECURSIVE Mut_CategoryBreakdown(_)
Mut_CategoryBreakdown(rows) ==
  IF rows = <<>>
  THEN [income_by_category |-> EmptyDict, expenses_by_category |-> EmptyDict]
  ELSE LET acc == Mut_CategoryBreakdown(SubSeq(rows, 1, Len(rows) - 1))
           t == rows[Len(rows)]
       IN IF t.type = "income"
          THEN [acc EXCEPT !.income_by_category = DictSet(@, t.category, t.amount)]
          ELSE [acc EXCEPT !.expenses_by_category = DictSet(@, t.category, t.amount)]

\* the single pass over the rows that fills income_by_category and expenses_by_category
RECURSIVE CategoryBreakdown(_)
CategoryBreakdown(rows) ==
  IF rows = <<>>
  THEN [income_by_category |-> EmptyDict, expenses_by_category |-> EmptyDict]
  ELSE LET acc == CategoryBreakdown(SubSeq(rows, 1, Len(rows) - 1))
           t == rows[Len(rows)]
       IN IF t.type = "income"
          THEN [acc EXCEPT !.income_by_category =
                  DictSet(@, t.category, DictGet(@, t.category, 0) + t.amount)]
          ELSE [acc EXCEPT !.expenses_by_category =
                  DictSet(@, t.category, DictGet(@, t.category, 0) + t.amount)]

\* the two totals subtracted the wrong way round
Mut_Savings(total_income, total_expenses) == total_expenses - total_income

\* savings of a report from its two totals
Savings(total_income, total_expenses) == total_income - total_expenses

\* the rows generate_monthly_report counts and breaks down
MonthlyTransactions(user_id, start_date, end_date) ==
  get_transactions(user_id, {start_date}, {end_date}, {}, {}, {})

generate_monthly_report(user_id, month, year) ==
  LET start_date == ReportStartDate(month, year)
      end_date == ReportEndDate(month, year)
      rows == MonthlyTransactions(user_id, start_date, end_date)
      total_income == get_total_income(user_id, {start_date}, {end_date})
      total_expenses == get_total_expenses(user_id, {start_date}, {end_date})
      by_category == CategoryBreakdown(rows)
  IN [month |-> month,
      year |-> year,
      start_date |-> start_date,
      end_date |-> end_date,
      total_income |-> total_income,
      total_expenses |-> total_expenses,
      savings |-> Savings(total_income, total_expenses),
      income_by_category |-> by_category.income_by_category,
      expenses_by_category |-> by_category.expenses_by_category,
      transaction_count |-> Len(rows)]

\* range(1, 13) ends with month 12
LastReportMonth == 12

\* the reports appended by "for month in range(1, last + 1)"
RECURSIVE MonthlyReportsUpTo(_, _, _)
MonthlyReportsUpTo(user_id, year, last) ==
  IF last = 0 THEN <<>>
  ELSE Append(MonthlyReportsUpTo(user_id, year, last - 1),
              generate_monthly_report(user_id, last, year))

\* range(1, 12): December left out
Mut_MonthlyReports(user_id, year) ==
  MonthlyReportsUpTo(user_id, year, LastReportMonth - 1)

\* monthly_reports of generate_yearly_report
MonthlyReports(user_id, year) ==
  MonthlyReportsUpTo(user_id, year, LastReportMonth)

generate_yearly_report(user_id, year) ==
  LET start_date == date(year, 1, 1)
      end_date == date(year, 12, 31)
      total_income == get_total_income(user_id, {start_date}, {end_date})
      total_expenses == get_total_expenses(user_id, {start_date}, {end_date})
      rows == get_transactions(user_id, {start_date}, {end_date}, {}, {}, {})
      by_category == CategoryBreakdown(rows)
  IN [year |-> year,
      total_income |-> total_income,
      total_expenses |-> total_expenses,
      total_savings |-> Savings(total_income, total_expenses),
      monthly_reports |-> MonthlyReports(user_id, year),
      income_by_category |-> by_category.income_by_category,
      expenses_by_category |-> by_category.expenses_by_category,
      transaction_count |-> Len(rows)]

----------------------------------------------------------------------------
(* src/budget.py                                                           *)

BudgetKey(b) == <<b.user_id, b.category, b.month, b.year>>

\* the lookup of the existing budget finding nothing
Mut_ExistingBudgets(user_id, category, month, year) == {}

\* SELECT id FROM budgets WHERE user_id = ? AND category = ? AND month = ? AND year = ?
ExistingBudgets(user_id, category, month, year) ==
  {b \in budgets : BudgetKey(b) = <<user_id, category, month, year>>}

\* set_budget without its check of the limit
Mut_set_budget_ret(user_id, category, monthly_limit, month, year) ==
  IF category \notin ALL_CATEGORIES
  THEN Ret(FALSE, "Invalid category.", {})
  ELSE IF ~(1 <= month /\ month <= 12)
  THEN Ret(FALSE, "Month must be between 1 and 12.", {})
  ELSE IF ExistingBudgets(user_id, category, month, year) # {}
  THEN Ret(TRUE, "Budget updated", {})
  ELSE Ret(TRUE, "Budget set", {})

\* what set_budget returns
set_budget_ret(user_id, category, monthly_limit, month, year) ==
  IF category \notin ALL_CATEGORIES
  THEN Ret(FALSE, "Invalid category.", {})
  ELSE IF monthly_limit <= 0
  THEN Ret(FALSE, "Monthly limit must be greater than 0.", {})
  ELSE IF ~(1 <= month /\ month <= 12)
  THEN Ret(FALSE, "Month must be between 1 and 12.", {})
  ELSE IF ExistingBudgets(user_id, category, month, year) # {}
  THEN Ret(TRUE, "Budget updated", {})
  ELSE Ret(TRUE, "Budget set", {})

\* table budgets after set_budget
set_budget_rows(user_id, category, monthly_limit, month, year) ==
  IF set_budget_ret(user_id, category, monthly_limit, month, year).ok
  THEN IF ExistingBudgets(user_id, category, month, year) # {}
       THEN {IF BudgetKey(b) = <<user_id, category, month, year>>
             THEN [b EXCEPT !.monthly_limit = monthly_limit] ELSE b : b \in budgets}
       ELSE budgets \cup {[user_id |-> user_id, category |-> category,
                           monthly_limit |-> monthly_limit,
                           month |-> month, year |-> year]}
  ELSE budgets

\* what set_budget does to the store
set_budget(user_id, category, monthly_limit, month, year) ==
  /\ budgets' = set_budget_rows(user_id, category, monthly_limit, month, year)
  /\ UNCHANGED <<transactions, nextId, clock, plan, users, nextUserId, current_user_id, files>>

get_budget(user_id, category, month, year) ==
  ExistingBudgets(user_id, category, month, year)

\* the categories in the order of SQLite's text comparison (ORDER BY category)
CategoryOrder ==
  <<"Bills", "Bonus", "Education", "Entertainment", "Food", "Freelance",
    "Healthcare", "Investment", "Other Expense", "Other Income", "Rent",
    "Salary", "Shopping", "Transportation", "Utilities">>

CategoryRank(c) == CHOOSE i \in 1 .. Len(CategoryOrder) : CategoryOrder[i] = c

RECURSIVE OrderBudgets(_)
OrderBudgets(S) ==
  IF S = {} THEN <<>>
  ELSE LET first == CHOOSE b \in S :
                      \A c \in S : CategoryRank(b.category) <= CategoryRank(c.category)
       IN <<first>> \o OrderBudgets(S \ {first})

\* the query without "user_id = ?"
Mut_get_all_budgets(user_id, month, year) ==
  OrderBudgets({b \in budgets : b.month = month /\ b.year = year})

\* SELECT * FROM budgets WHERE user_id = ? AND month = ? AND year = ? ORDER BY category
get_all_budgets(user_id, month, year) ==
  OrderBudgets({b \in budgets : b.user_id = user_id /\ b.month = month /\ b.year = year})

\* start_date and end_date of check_budget_status
BudgetStartDate(month, year) == date(year, month, 1)

BudgetEndDate(month, year) ==
  MinusOneDay(IF month = 12 THEN date(year + 1, 1, 1) ELSE date(year, month + 1, 1))

\* the query without transaction_type='expense'
Mut_BudgetTransactions(user_id, start_date, end_date, category) ==
  get_transactions(user_id, {start_date}, {end_date}, {category}, {}, {})

\* the rows whose amounts check_budget_status adds up for one budget
BudgetTransactions(user_id, start_date, end_date, category) ==
  get_transactions(user_id, {start_date}, {end_date}, {category}, {"expense"}, {})

\* spent / limit * 100, as the ratio <<numerator, denominator>>
Percentage(spent, limit) == IF limit > 0 THEN <<spent * 100, limit>> ELSE <<0, 1>>

\* ">=" for ">"
Mut_Exceeded(spent, limit) == spent >= limit

Exceeded(spent, limit) == spent > limit

\* one element of status_list
BudgetStatus(user_id, budget, start_date, end_date) ==
  LET category == budget.category
      limit == budget.monthly_limit
      spent == SumAmounts(BudgetTransactions(user_id, start_date, end_date, category))
  IN [category |-> category,
      limit |-> limit,
      spent |-> spent,
      remaining |-> limit - spent,
      percentage |-> Percentage(spent, limit),
      exceeded |-> Exceeded(spent, limit)]

check_budget_status(user_id, month, year) ==
  LET bs == get_all_budgets(user_id, month, year)
      start_date == BudgetStartDate(month, year)
      end_date == BudgetEndDate(month, year)
  IN [month |-> month,
      year |-> year,
      budgets |-> [i \in 1 .. Len(bs) |-> BudgetStatus(user_id, bs[i], start_date, end_date)]]

\* one element of alerts
Alert(budget_status) ==
  [category |-> budget_status.category,
   limit |-> budget_status.limit,
   spent |-> budget_status.spent,
   over_budget |-> budget_status.spent - budget_status.limit,
   percentage |-> budget_status.percentage]

\* an alert for every budget that is used up, exceeded or not
Mut_AlertRaised(budget_status) == budget_status.remaining <= 0

\* "if budget_status['exceeded']"
AlertRaised(budget_status) == budget_status.exceeded

RECURSIVE AlertsOf(_)
AlertsOf(status_list) ==
  IF status_list = <<>> THEN <<>>
  ELSE LET rest == AlertsOf(SubSeq(status_list, 1, Len(status_list) - 1))
           last == status_list[Len(status_list)]
       IN IF AlertRaised(last) THEN Append(rest, Alert(last)) ELSE rest

get_budget_alerts(user_id, month, year) ==
  AlertsOf(check_budget_status(user_id, month, year).budgets)

----------------------------------------------------------------------------
(* The callers: the arguments the operations are called with.              *)

Users == {1, 2}

TypeInputs == {"income", "expense", "transfer"}

\* "Gift" is in neither category list
CategoryInputs == {"Food", "Gift"}

AmountInputs == {0, 1, 2}

\* the last and the first days of months and years, 2024 being a leap year
DateInputs == {<<2024, 2, 29>>, <<2024, 12, 31>>, <<2025, 1, 1>>}

\* date.today()
Today == <<2024, 12, 31>>

\* the keyword arguments update_transaction is called with
UpdateInputs(categories) ==
  {("type" :> {t}) : t \in TypeInputs}
    \cup {("category" :> {c}) : c \in categories}
    \cup {("amount" :> {a}) : a \in AmountInputs}
    \cup {("date" :> {d}) : d \in DateInputs}
    \cup {("type" :> {"income"}) @@ ("amount" :> {1}),
          ("amount" :> {}) @@ ("category" :> {}),
          ("id" :> {9}),
          EmptyDict}

\* the months and years the reports are asked for
QueryMonths == 1 .. 12
QueryYears == {2024, 2025}

\* the store after init_database
InitStore ==
  /\ transactions = EmptyDict
  /\ nextId = 1
  /\ budgets = {}
  /\ clock = 0
  /\ users = {}
  /\ nextUserId = 1
  /\ current_user_id = {}
  /\ files = EmptyDict

\* the sums, counts, breakdowns and budget rows read under the specifications
\* that start here do not depend on the order of the rows of equal keys: they
\* are explored under the plan SQLite takes with the indexes of init_database
Init ==
  /\ InitStore
  /\ plan = "index"

AddTransaction(owners, categories, amounts, transaction_dates) ==
  \E user_id \in owners, transaction_type \in TypeInputs, category \in categories, amount \in amounts, transaction_date \in transaction_dates :
    /\ nextId <= MaxTx
    /\ add_transaction(user_id, transaction_type, category, amount, {}, transaction_date, Today, clock)

UpdateTransaction(owners, categories) ==
  \E transaction_id \in 1 .. MaxTx, user_id \in owners, kwargs \in UpdateInputs(categories) :
    update_transaction(transaction_id, user_id, kwargs)

DeleteTransaction(owners) ==
  \E transaction_id \in 1 .. MaxTx, user_id \in owners :
    delete_transaction(transaction_id, user_id)

\* transaction_date: a date, or None for today
DateArguments == {{d} : d \in DateInputs} \cup {{}}

Next ==
  \/ AddTransaction(Users, CategoryInputs, AmountInputs, DateArguments)
  \/ UpdateTransaction(Users, CategoryInputs)
  \/ DeleteTransaction(Users)

\* the ledger of two owners: transactions added, updated and deleted
Spec == Init /\ [][Next]_vars

\* the owner and the categories of the ledger a yearly report is composed from
YearUsers == {1}
YearCategoryInputs == {"Salary", "Food", "Gift"}

NextYear ==
  \/ AddTransaction(YearUsers, YearCategoryInputs, AmountInputs, DateArguments)
  \/ UpdateTransaction(YearUsers, YearCategoryInputs)
  \/ DeleteTransaction(YearUsers)

\* the ledger of one owner with categories of both kinds
SpecYear == Init /\ [][NextYear]_vars

\* the budgets set_budget is called with: <<user_id, category, monthly_limit, month, year>>
BudgetInputs ==
  {<<1, "Food", 1, 12, 2024>>, <<1, "Food", 2, 12, 2024>>,
   <<1, "Rent", 1, 12, 2024>>, <<2, "Food", 3, 12, 2024>>,
   <<1, "Food", 3, 1, 2025>>,
   <<1, "Gift", 2, 12, 2024>>, <<1, "Food", 0, 12, 2024>>,
   <<1, "Food", 2, 13, 2024>>, <<1, "Food", 2, 0, 2024>>}

\* the transactions added beside the budgets
BudgetCategoryInputs == {"Food", "Rent", "Gift"}
BudgetAmountInputs == {0, 2}
BudgetDateArguments == {{<<2024, 12, 31>>}, {<<2025, 1, 1>>}}

\* the months <<month, year>> the budget status is asked for
BudgetQueries == {<<12, 2024>>, <<1, 2025>>}

SetBudget ==
  \E b \in BudgetInputs : set_budget(b[1], b[2], b[3], b[4], b[5])

NextBudget ==
  \/ AddTransaction(Users, BudgetCategoryInputs, BudgetAmountInputs, BudgetDateArguments)
  \/ DeleteTransaction(Users)
  \/ SetBudget

\* the ledger of two owners with their budgets
SpecBudget == Init /\ [][NextBudget]_vars

----------------------------------------------------------------------------
(* What the claims are stated with: the stored rows read directly, by the  *)
(* year and month digits of their date text.                               *)

Rows == {transactions[i] : i \in DOMAIN transactions}

RowsOf(user_id) == {r \in Rows : r.user_id = user_id}

InMonth(r, month, year) == IsoYear(r.date) = year /\ IsoMonth(r.date) = month

InYear(r, year) == IsoYear(r.date) = year

RECURSIVE SetSum(_)
SetSum(S) ==
  IF S = {} THEN 0
  ELSE LET r == CHOOSE x \in S : TRUE IN r.amount + SetSum(S \ {r})

RECURSIVE SeqSum(_, _)
SeqSum(f, n) == IF n = 0 THEN 0 ELSE SeqSum(f, n - 1) + f[n]

\* C1: for every owner, month and year, the monthly report's total_income is
\* the sum of the amounts of that owner's income rows dated within the month,
\* and total_expenses the same sum over the owner's expense rows (0 when no
\* row matches).
C1_MonthlyTotals ==
  \A u \in Users, m \in QueryMonths, y \in QueryYears :
    LET report == generate_monthly_report(u, m, y) IN
    /\ report.total_income =
         SetSum({r \in RowsOf(u) : r.type = "income" /\ InMonth(r, m, y)})
    /\ report.total_expenses =
         SetSum({r \in RowsOf(u) : r.type = "expense" /\ InMonth(r, m, y)})

\* a February in which owner 1 has an income row of 2 on the 29th and owner 2
\* an income row of its own
C1_Witness ==
  /\ generate_monthly_report(1, 2, 2024).total_income = 2
  /\ generate_monthly_report(1, 2, 2024).total_expenses = 0
  /\ \E r \in RowsOf(2) : r.type = "income" /\ InMonth(r, 2, 2024)

\* the month's window as its first and last calendar day
FirstDay(month, year) == <<year, month, 1>>
LastDay(month, year) == <<year, month, DaysInMonth(year, month)>>

\* C2: get_total_income minus get_total_expenses over a window is exactly the
\* savings of the report for that window: savings of the monthly report,
\* total_savings of the yearly report, and calculate_savings; it is signed.
C2_SavingsIsIncomeMinusExpenses ==
  \A u \in Users :
    /\ \A m \in QueryMonths, y \in QueryYears :
         generate_monthly_report(u, m, y).savings =
           get_total_income(u, {FirstDay(m, y)}, {LastDay(m, y)})
             - get_total_expenses(u, {FirstDay(m, y)}, {LastDay(m, y)})
    /\ \A y \in QueryYears :
         generate_yearly_report(u, y).total_savings =
           get_total_income(u, {FirstDay(1, y)}, {LastDay(12, y)})
             - get_total_expenses(u, {FirstDay(1, y)}, {LastDay(12, y)})
    /\ \A s \in DateInputs, e \in DateInputs :
         calculate_savings(u, s, e) =
           get_total_income(u, {s}, {e}) - get_total_expenses(u, {s}, {e})

\* a December with more expenses than income: the savings are negative
C2_Witness ==
  /\ generate_monthly_report(1, 12, 2024).savings = -1
  /\ generate_monthly_report(1, 12, 2024).total_income = 1
  /\ generate_yearly_report(1, 2024).total_savings = -1

\* C3: the transaction_count of a monthly report is the number of rows
\* get_transactions returns for the same owner and the month's window with no
\* kind, category or limit filter, which is the number of the owner's rows
\* dated in that month.
C3_MonthlyCount ==
  \A u \in Users, m \in QueryMonths, y \in QueryYears :
    LET report == generate_monthly_report(u, m, y) IN
    /\ report.transaction_count =
         Len(get_transactions(u, {FirstDay(m, y)}, {LastDay(m, y)}, {}, {}, {}))
    /\ report.transaction_count =
         Cardinality({r \in RowsOf(u) : InMonth(r, m, y)})

\* owner 1 has a row on the last day of December and one on the next day
C3_Witness ==
  /\ generate_monthly_report(1, 12, 2024).transaction_count = 1
  /\ generate_monthly_report(1, 1, 2025).transaction_count = 1
  /\ Cardinality(RowsOf(1)) = 2

MonthlySum(reports, field, k) ==
  SeqSum([i \in 1 .. 12 |-> DictGet(reports[i][field], k, 0)], 12)

C10_CategoryOfKind ==
  \A r \in Rows :
    /\ (r.type = "income") => (r.category \in INCOME_CATEGORIES)
    /\ (r.type = "expense") => (r.category \in EXPENSE_CATEGORIES)

\* the budgets an owner has defined for a month
BudgetsOf(user_id, month, year) ==
  {b \in budgets : b.user_id = user_id /\ b.month = month /\ b.year = year}

\* the amounts of the owner's expense rows of a category dated in a month
SpentOn(user_id, category, month, year) ==
  SetSum({r \in RowsOf(user_id) :
            r.type = "expense" /\ r.category = category /\ InMonth(r, month, year)})

\* C6: in every row of check_budget_status, spent is the sum of the owner's
\* expense rows of the budget's category dated in that month, remaining is
\* limit - spent and percentage is spent / limit * 100; without matching spend
\* the row reports spent = 0, remaining = limit, exceeded = false.
C6_BudgetStatusRow ==
  \A u \in Users, q \in BudgetQueries :
    LET rows == check_budget_status(u, q[1], q[2]).budgets IN
    \A i \in DOMAIN rows :
      LET spent == SpentOn(u, rows[i].category, q[1], q[2]) IN
      /\ \E b \in BudgetsOf(u, q[1], q[2]) :
           b.category = rows[i].category /\ b.monthly_limit = rows[i].limit
      /\ rows[i].spent = spent
      /\ rows[i].remaining = rows[i].limit - spent
      /\ rows[i].percentage[2] > 0
      /\ rows[i].percentage[1] * rows[i].limit = spent * 100 * rows[i].percentage[2]
      /\ (spent = 0) =>
           /\ rows[i].remaining = rows[i].limit
           /\ rows[i].exceeded = FALSE

\* owner 1's Food budget of December has one expense row counted, while an
\* income row of the same owner, category and month is not
C6_Witness ==
  /\ \E r \in RowsOf(1) : r.type = "income" /\ r.category = "Food" /\ InMonth(r, 12, 2024)
  /\ Len(check_budget_status(1, 12, 2024).budgets) = 1
  /\ check_budget_status(1, 12, 2024).budgets[1].category = "Food"
  /\ check_budget_status(1, 12, 2024).budgets[1].spent = 2

\* C7: in every budget status row, exceeded is true exactly when spent is
\* strictly greater than limit; spent equal to limit is not exceeded.
C7_ExceededIffSpentAboveLimit ==
  \A u \in Users, q \in BudgetQueries :
    LET rows == check_budget_status(u, q[1], q[2]).budgets IN
    \A i \in DOMAIN rows :
      rows[i].exceeded = (SpentOn(u, rows[i].category, q[1], q[2]) > rows[i].limit)

\* a budget whose spend equals its limit
C7_Witness ==
  \E i \in DOMAIN check_budget_status(1, 12, 2024).budgets :
    LET row == check_budget_status(1, 12, 2024).budgets[i] IN
    row.spent = 2 /\ row.limit = 2 /\ ~row.exceeded

\* the indexes of the exceeded rows of a status list
ExceededRows(rows) == {i \in DOMAIN rows : rows[i].exceeded}

\* the k-th smallest element of a set of numbers
Kth(S, k) == CHOOSE i \in S : Cardinality({j \in S : j < i}) = k - 1

\* C8: get_budget_alerts returns exactly the exceeded rows of
\* check_budget_status, in the same order, each with the row's category,
\* limit, spent and percentage and with over_budget = spent - limit > 0; it
\* is empty when no budget is exceeded.
C8_AlertsAreExceededRows ==
  \A u \in Users, q \in BudgetQueries :
    LET rows == check_budget_status(u, q[1], q[2]).budgets
        alerts == get_budget_alerts(u, q[1], q[2])
    IN
    /\ Len(alerts) = Cardinality(ExceededRows(rows))
    /\ \A k \in DOMAIN alerts :
         LET row == rows[Kth(ExceededRows(rows), k)] IN
         /\ DOMAIN alerts[k] = {"category", "limit", "spent", "over_budget", "percentage"}
         /\ alerts[k].category = row.category
         /\ alerts[k].limit = row.limit
         /\ alerts[k].spent = row.spent
         /\ alerts[k].percentage = row.percentage
         /\ alerts[k].over_budget = row.spent - row.limit
         /\ alerts[k].over_budget > 0

\* owner 1 has two budgets in December: Food is used up exactly and raises no
\* alert, Rent is exceeded by 1 and raises the only one
C8_Witness ==
  LET rows == check_budget_status(1, 12, 2024).budgets
      alerts == get_budget_alerts(1, 12, 2024)
  IN
  /\ Len(rows) = 2
  /\ rows[1].category = "Food" /\ rows[1].spent = 2 /\ ~rows[1].exceeded
  /\ Len(alerts) = 1
  /\ alerts[1].category = "Rent"
  /\ alerts[1].over_budget = 1

\* C9: check_budget_status returns exactly one row per budget the owner has
\* defined for that month and year and no other row: not for a category
\* with spend but no budget, another owner's budget or another month's.
C9_OneRowPerBudget ==
  \A u \in Users, q \in BudgetQueries :
    LET rows == check_budget_status(u, q[1], q[2]).budgets IN
    /\ Len(rows) = Cardinality(BudgetsOf(u, q[1], q[2]))
    /\ \A b \in BudgetsOf(u, q[1], q[2]) :
         Cardinality({i \in DOMAIN rows :
                        rows[i].category = b.category /\ rows[i].limit = b.monthly_limit}) = 1
    /\ \A i \in DOMAIN rows :
         \E b \in BudgetsOf(u, q[1], q[2]) :
           rows[i].category = b.category /\ rows[i].limit = b.monthly_limit

\* owner 1 has a Food budget without spend and Rent spend without a budget in
\* December, a budget for January, and owner 2 a budget for December
C9_Witness ==
  /\ \E r \in RowsOf(1) : r.type = "expense" /\ r.category = "Rent" /\ InMonth(r, 12, 2024)
  /\ BudgetsOf(2, 12, 2024) # {}
  /\ BudgetsOf(1, 1, 2025) # {}
  /\ Len(check_budget_status(1, 12, 2024).budgets) = 1
  /\ check_budget_status(1, 12, 2024).budgets[1].category = "Food"
  /\ check_budget_status(1, 12, 2024).budgets[1].spent = 0

----------------------------------------------------------------------------
(* Rejected calls.                                                         *)

\* add_transaction is called with a kind, a category or an amount it rejects
AddInvalid(transaction_type, category, amount) ==
  \/ transaction_type \notin {"income", "expense"}
  \/ category \notin ALL_CATEGORIES
  \/ amount <= 0

\* the reasons a rejected add_transaction gives
AddReasons ==
  {"Transaction type must be 'income' or 'expense'.",
   "Invalid category.",
   "Amount must be greater than 0."}

\* C11: add_transaction called with a kind other than 'income'/'expense', a
\* category outside the fixed list or an amount <= 0 returns (False, a reason,
\* None) and writes no row: the table and the id counter after the call are
\* those before it, and with them every query result and total.
C11_RejectedAddWritesNothing ==
  \A u \in Users, t \in TypeInputs, c \in CategoryInputs, a \in AmountInputs, d \in DateArguments :
    AddInvalid(t, c, a) =>
      LET r == add_transaction_ret(u, t, c, a, {}, d, Today, clock)
      IN /\ r.ok = FALSE
         /\ r.msg \in AddReasons
         /\ r.id = {}
         /\ add_transaction_rows(u, t, c, a, {}, d, Today, clock) = transactions
         /\ add_transaction_seq(u, t, c, a, {}, d, Today, clock) = nextId

\* a ledger with an expense of owner 1 on which the three kinds of invalid call
\* are rejected, each with its own reason
C11_Witness ==
  /\ get_total_expenses(1, {}, {}) = 2
  /\ add_transaction_ret(1, "transfer", "Food", 1, {}, {}, Today, clock)
       = Ret(FALSE, "Transaction type must be 'income' or 'expense'.", {})
  /\ add_transaction_ret(1, "expense", "Gift", 1, {}, {}, Today, clock)
       = Ret(FALSE, "Invalid category.", {})
  /\ add_transaction_ret(1, "expense", "Food", 0, {}, {}, Today, clock)
       = Ret(FALSE, "Amount must be greater than 0.", {})

\* set_budget is called with a category, a limit or a month it rejects
BudgetInvalid(category, monthly_limit, month) ==
  \/ category \notin ALL_CATEGORIES
  \/ monthly_limit <= 0
  \/ month < 1
  \/ month > 12

\* the reasons a rejected set_budget gives
BudgetReasons ==
  {"Invalid category.",
   "Monthly limit must be greater than 0.",
   "Month must be between 1 and 12."}

\* the limits, months and years set_budget is asked for
LimitInputs == {0 - 1, 0, 2, 3}
MonthInputs == {0, 1, 12, 13}
YearInputs == {2024}

SetAnyBudget ==
  \E u \in Users, c \in BudgetCategoryInputs, l \in LimitInputs, m \in MonthInputs, y \in YearInputs :
    set_budget(u, c, l, m, y)

\* the budgets of two owners, set and set again
SpecUpsert == Init /\ [][SetAnyBudget]_vars

\* C12: set_budget called with a category outside the combined list, a
\* monthly_limit <= 0 or a month outside 1..12 returns (False, reason) and
\* leaves the set of budgets as it was: none created, no limit altered.
C12_RejectedBudgetWritesNothing ==
  \A u \in Users, c \in BudgetCategoryInputs, l \in LimitInputs, m \in MonthInputs, y \in YearInputs :
    BudgetInvalid(c, l, m) =>
      LET r == set_budget_ret(u, c, l, m, y)
      IN /\ r.ok = FALSE
         /\ r.msg \in BudgetReasons
         /\ set_budget_rows(u, c, l, m, y) = budgets

\* owner 1 has a Food budget of 2 for December 2024; a limit of 0 for the same
\* key, a month 13 and the category Gift are each rejected with their reason
C12_Witness ==
  /\ \E b \in budgets : BudgetKey(b) = <<1, "Food", 12, 2024>> /\ b.monthly_limit = 2
  /\ set_budget_ret(1, "Food", 0, 12, 2024) = Ret(FALSE, "Monthly limit must be greater than 0.", {})
  /\ set_budget_ret(1, "Food", 3, 13, 2024) = Ret(FALSE, "Month must be between 1 and 12.", {})
  /\ set_budget_ret(1, "Gift", 3, 12, 2024) = Ret(FALSE, "Invalid category.", {})

----------------------------------------------------------------------------
(* The budget upsert.                                                      *)

\* the budgets stored under a key other than <<user_id, category, month, year>>
OtherBudgets(S, user_id, category, month, year) ==
  {b \in S : BudgetKey(b) # <<user_id, category, month, year>>}

\* C13: there is at most one budget per (owner, category, month, year). A valid
\* set_budget on a key without a budget adds exactly one budget and reports
\* "set"; on a key with a budget it adds none, replaces the limit of that
\* budget, which get_budget then returns, and reports "updated"; the budgets
\* under other keys stay as they are.
C13_BudgetUpsert ==
  /\ \A b1, b2 \in budgets : BudgetKey(b1) = BudgetKey(b2) => b1 = b2
  /\ \A b \in budgets : get_budget(b.user_id, b.category, b.month, b.year) = {b}
  /\ \A u \in Users, c \in BudgetCategoryInputs, l \in LimitInputs, m \in MonthInputs, y \in YearInputs :
       ~BudgetInvalid(c, l, m) =>
         LET r == set_budget_ret(u, c, l, m, y)
             after == set_budget_rows(u, c, l, m, y)
             stored == {b \in after : BudgetKey(b) = <<u, c, m, y>>}
         IN /\ r.ok
            /\ Cardinality(stored) = 1
            /\ \A b \in stored : b.monthly_limit = l
            /\ OtherBudgets(after, u, c, m, y) = OtherBudgets(budgets, u, c, m, y)
            /\ IF get_budget(u, c, m, y) = {}
               THEN r.msg = "Budget set" /\ Cardinality(after) = Cardinality(budgets) + 1
               ELSE r.msg = "Budget updated" /\ Cardinality(after) = Cardinality(budgets)

\* owner 1 has budgets for Food and Rent in December 2024 and owner 2 one for
\* Food; setting Food of owner 1 to 3 is reported as an update and leaves three
\* budgets, the one of owner 1 for Food with limit 3
C13_Witness ==
  /\ Cardinality(budgets) = 3
  /\ get_budget(1, "Food", 12, 2024) # {}
  /\ get_budget(1, "Rent", 12, 2024) # {}
  /\ get_budget(2, "Food", 12, 2024) # {}
  /\ \A b \in get_budget(1, "Food", 12, 2024) : b.monthly_limit = 2
  /\ set_budget_ret(1, "Food", 3, 12, 2024) = Ret(TRUE, "Budget updated", {})
  /\ Cardinality(set_budget_rows(1, "Food", 3, 12, 2024)) = 3
  /\ [user_id |-> 1, category |-> "Food", monthly_limit |-> 3, month |-> 12, year |-> 2024]
       \in set_budget_rows(1, "Food", 3, 12, 2024)

----------------------------------------------------------------------------
(* Transactions of another owner.                                          *)

NotFound == Ret(FALSE, "Transaction not found or access denied.", {})

\* the ids a caller may name: those given out so far and one never given out
IdInputs == 1 .. MaxTx + 1

\* the ids that do not exist
MissingIds == IdInputs \ DOMAIN transactions

\* the ids of the rows of owners other than user_id
ForeignIds(user_id) ==
  {i \in DOMAIN transactions : transactions[i].user_id # user_id}

\* the keyword arguments name at least one field and no invalid value
UpdateValid(kwargs) ==
  LET updates == UpdatesOf(kwargs) IN
  /\ DOMAIN updates # {}
  /\ ("type" \in DOMAIN updates) => (updates["type"] \in {"income", "expense"})
  /\ ("category" \in DOMAIN updates) => (updates["category"] \in ALL_CATEGORIES)
  /\ ("amount" \in DOMAIN updates) => (updates["amount"] > 0)

\* C14: update_transaction and delete_transaction called with an id that does
\* not exist or with the id of another owner's row fail with "not found or
\* access denied" (update_transaction when its arguments pass validation; when
\* they do not, with the same validation failure in both cases), so the two
\* cases give the caller the same outcome, and the table is unchanged.
C14_NotFoundOrDenied ==
  \A u \in Users :
    /\ \A i \in MissingIds \cup ForeignIds(u) :
         /\ delete_transaction_ret(i, u) = NotFound
         /\ delete_transaction_rows(i, u) = transactions
         /\ \A k \in UpdateInputs(CategoryInputs) :
              /\ update_transaction_ret(i, u, k).ok = FALSE
              /\ UpdateValid(k) => update_transaction_ret(i, u, k) = NotFound
              /\ update_transaction_rows(i, u, k) = transactions
    /\ \A i \in MissingIds, j \in ForeignIds(u) :
         /\ delete_transaction_ret(i, u) = delete_transaction_ret(j, u)
         /\ \A k \in UpdateInputs(CategoryInputs) :
              update_transaction_ret(i, u, k) = update_transaction_ret(j, u, k)

\* row 1 belongs to owner 2 and row 2 to owner 1, id 3 was never given out:
\* owner 1 updating or deleting row 1 or row 3 is told the same, while the
\* same calls on row 2 succeed
C14_Witness ==
  /\ DOMAIN transactions = {1, 2}
  /\ transactions[1].user_id = 2
  /\ transactions[2].user_id = 1
  /\ update_transaction_ret(1, 1, "amount" :> {1}) = NotFound
  /\ update_transaction_ret(3, 1, "amount" :> {1}) = NotFound
  /\ update_transaction_ret(2, 1, "amount" :> {1}).ok
  /\ delete_transaction_ret(1, 1) = NotFound
  /\ delete_transaction_ret(3, 1) = NotFound
  /\ delete_transaction_ret(2, 1).ok

----------------------------------------------------------------------------
(* The filters of get_transactions.                                        *)

\* the categories and the dates of the rows the filters are tried on
FilterCategoryInputs == {"Food", "Rent"}
FilterAmountInputs == {1}
FilterDateArguments == {{<<2024, 12, 31>>}, {<<2025, 1, 1>>}}

NextFilter ==
  \/ AddTransaction(Users, FilterCategoryInputs, FilterAmountInputs, FilterDateArguments)
  \/ DeleteTransaction(Users)

\* the ledger of two owners with rows of both kinds, two categories and two days
SpecFilter == Init /\ [][NextFilter]_vars

\* an argument that is omitted (None) or one of S
Option(S) == {{}} \cup {{x} : x \in S}

\* the bounds a caller filters with: the days of the rows and the day before
FilterDates == {<<2024, 12, 30>>, <<2024, 12, 31>>, <<2025, 1, 1>>}

\* the ids of the rows of the owner that satisfy every filter supplied
Matching(user_id, start_date, end_date, category, transaction_type) ==
  {i \in DOMAIN transactions :
     /\ transactions[i].user_id = user_id
     /\ (start_date # {}) => (transactions[i].date >= IsoFormat(OptionValue(start_date)))
     /\ (end_date # {}) => (transactions[i].date <= IsoFormat(OptionValue(end_date)))
     /\ (category # {}) => (transactions[i].category = OptionValue(category))
     /\ (transaction_type # {}) => (transactions[i].type = OptionValue(transaction_type))}

\* C15: get_transactions(owner, start, end, category, kind) returns exactly the
\* owner's rows that satisfy every supplied filter at once (date >= start,
\* date <= end, both inclusive, category equal, kind equal), each row once and
\* as stored, an omitted filter imposing nothing; with start = end = d these
\* are the rows dated d.
C15_FiltersAreConjunctive ==
  \A u \in Users, s \in Option(FilterDates), e \in Option(FilterDates), c \in Option(FilterCategoryInputs), t \in Option({"income", "expense"}) :
    LET result == get_transactions(u, s, e, c, t, {})
        wanted == Matching(u, s, e, c, t)
    IN /\ {result[i].id : i \in 1 .. Len(result)} = wanted
       /\ Len(result) = Cardinality(wanted)
       /\ \A i \in 1 .. Len(result) : result[i] = transactions[result[i].id]
       /\ (s # {} /\ s = e) =>
            wanted = {i \in DOMAIN transactions :
                        /\ transactions[i].user_id = u
                        /\ transactions[i].date = IsoFormat(OptionValue(s))
                        /\ (c # {}) => (transactions[i].category = OptionValue(c))
                        /\ (t # {}) => (transactions[i].type = OptionValue(t))}

\* owner 1 has a Food expense on 2024-12-31 and a Rent income on 2025-01-01:
\* the single day 2024-12-31 returns the first alone, the category Rent and
\* the kind income the second alone, the two filters Food and income nothing
C15_Witness ==
  /\ DOMAIN transactions = {1, 2}
  /\ transactions[1].user_id = 1 /\ transactions[1].date = 20241231
  /\ transactions[1].category = "Food" /\ transactions[1].type = "expense"
  /\ transactions[2].user_id = 1 /\ transactions[2].date = 20250101
  /\ transactions[2].category = "Rent" /\ transactions[2].type = "income"
  /\ get_transactions(1, {<<2024, 12, 31>>}, {<<2024, 12, 31>>}, {}, {}, {}) = <<transactions[1]>>
  /\ get_transactions(1, {}, {}, {"Rent"}, {}, {}) = <<transactions[2]>>
  /\ get_transactions(1, {}, {}, {}, {"income"}, {}) = <<transactions[2]>>
  /\ get_transactions(1, {}, {}, {"Food"}, {"income"}, {}) = <<>>
  /\ Len(get_transactions(1, {}, {}, {}, {}, {})) = 2

----------------------------------------------------------------------------
(* The order and the limit of get_transactions.                            *)

\* a second passes: CURRENT_TIMESTAMP, the default of created_at, moves on
Tick ==
  /\ clock < MaxClock
  /\ clock' = clock + 1
  /\ UNCHANGED <<transactions, nextId, budgets, plan, users, nextUserId, current_user_id, files>>

\* the store after init_database, read under either plan
InitAnyPlan ==
  /\ InitStore
  /\ plan \in QueryPlans

OrderCategoryInputs == {"Food"}

NextOrder ==
  \/ AddTransaction(Users, OrderCategoryInputs, FilterAmountInputs, FilterDateArguments)
  \/ DeleteTransaction(Users)
  \/ Tick

\* the ledger of two owners with rows added in the same second and in
\* different seconds
SpecOrder == InitAnyPlan /\ [][NextOrder]_vars

LimitArguments == {0, 1, 2, 3}

\* the first n rows of a list, all of them when it has fewer
FirstRows(rows, n) == SubSeq(rows, 1, IF n < Len(rows) THEN n ELSE Len(rows))

\* C17: with a limit L >= 0 get_transactions returns at most L rows, the first
\* L of the unlimited ordered result for the same filters.
C17_LimitIsPrefix ==
  \A u \in Users, t \in Option({"income", "expense"}), L \in LimitArguments :
    LET limited == get_transactions(u, {}, {}, {}, t, {L})
        unlimited == get_transactions(u, {}, {}, {}, t, {})
    IN /\ Len(limited) <= L
       /\ limited = FirstRows(unlimited, L)

----------------------------------------------------------------------------
(* The queries as units of work on the store.                              *)

\* the tables and the id counters
Store == [transactions |-> transactions, nextId |-> nextId, budgets |-> budgets, users |-> users, nextUserId |-> nextUserId]

\* the unit of work without the rollback
Mut_UnitOfWork(before, work, raised) == work

\* get_db_connection: the store after a unit of work. work is the store as the
\* statements of the body left it; conn.commit() when the body returned,
\* conn.rollback() when it raised
UnitOfWork(before, work, raised) == IF raised THEN before ELSE work

\* a unit of work that deletes what it reads
Mut_Select(store) == [store EXCEPT !.transactions = EmptyDict]

\* the store after a unit of work whose only statement is a SELECT
Select(store) == UnitOfWork(store, store, FALSE)

get_transactions_store(store) == Select(store)

get_total_income_store(store) == get_transactions_store(store)

get_total_expenses_store(store) == get_transactions_store(store)

get_all_budgets_store(store) == Select(store)

\* get_all_budgets, then get_transactions for the budgets found
check_budget_status_store(store) ==
  get_transactions_store(get_all_budgets_store(store))

get_budget_alerts_store(store) == check_budget_status_store(store)

\* get_transactions, get_total_income, get_total_expenses
generate_monthly_report_store(store) ==
  get_total_expenses_store(get_total_income_store(get_transactions_store(store)))

\* generate_monthly_report for the months 1 .. last
RECURSIVE MonthlyStoresUpTo(_, _)
MonthlyStoresUpTo(store, last) ==
  IF last = 0 THEN store
  ELSE generate_monthly_report_store(MonthlyStoresUpTo(store, last - 1))

\* get_total_income, get_total_expenses, the monthly reports, get_transactions
generate_yearly_report_store(store) ==
  get_transactions_store(
    MonthlyStoresUpTo(get_total_expenses_store(get_total_income_store(store)),
                      LastReportMonth))

QueryFunctions ==
  {"get_transactions", "get_total_income", "get_total_expenses",
   "check_budget_status", "get_budget_alerts",
   "generate_monthly_report", "generate_yearly_report"}

\* the store after the query function q
StoreAfter(q) ==
  CASE q = "get_transactions" -> get_transactions_store(Store)
    [] q = "get_total_income" -> get_total_income_store(Store)
    [] q = "get_total_expenses" -> get_total_expenses_store(Store)
    [] q = "check_budget_status" -> check_budget_status_store(Store)
    [] q = "get_budget_alerts" -> get_budget_alerts_store(Store)
    [] q = "generate_monthly_report" -> generate_monthly_report_store(Store)
    [] q = "generate_yearly_report" -> generate_yearly_report_store(Store)

\* a query function is called
Query ==
  \E q \in QueryFunctions :
    /\ transactions' = StoreAfter(q).transactions
    /\ nextId' = StoreAfter(q).nextId
    /\ budgets' = StoreAfter(q).budgets
    /\ users' = StoreAfter(q).users
    /\ nextUserId' = StoreAfter(q).nextUserId
    /\ UNCHANGED <<clock, plan, current_user_id, files>>

\* the budget set beside the queries: <<user_id, category, monthly_limit, month, year>>
PureBudgetInputs == {<<1, "Food", 1, 12, 2024>>}

SetBudgetIn(inputs) ==
  \E b \in inputs : set_budget(b[1], b[2], b[3], b[4], b[5])

\* the day of the rows added beside the queries
PureDateArguments == {{<<2024, 12, 31>>}}

NextPure ==
  \/ AddTransaction(Users, OrderCategoryInputs, FilterAmountInputs, PureDateArguments)
  \/ DeleteTransaction(Users)
  \/ SetBudgetIn(PureBudgetInputs)
  \/ Tick
  \/ Query

\* the ledger and a budget, written, queried and left alone while time passes
SpecPure == InitAnyPlan /\ [][NextPure]_vars

\* what the query functions return to the owners
Results ==
  [u \in Users |->
     [transactions |-> get_transactions(u, {}, {}, {}, {}, {}),
      total_income |-> get_total_income(u, {}, {}),
      total_expenses |-> get_total_expenses(u, {}, {}),
      budget_status |-> check_budget_status(u, 12, 2024),
      budget_alerts |-> get_budget_alerts(u, 12, 2024),
      monthly_report |-> generate_monthly_report(u, 12, 2024),
      yearly_report |-> generate_yearly_report(u, 2024)]]

----------------------------------------------------------------------------
(* Store errors during a write.                                            *)

\* where the store raises, and the text of the sqlite3 error
StoreFaults ==
  {[at |-> "connect", cause |-> "unable to open database file"],
   [at |-> "execute", cause |-> "database is locked"],
   [at |-> "commit", cause |-> "disk I/O error"]}

\* f"{prefix}: {str(e)}"
Wrapped(prefix, cause) == <<prefix, cause>>

\* the messages of the checks made before the connection is opened
ValidationMessages ==
  {"Transaction type must be 'income' or 'expense'.", "Invalid category.",
   "Amount must be greater than 0.", "No valid fields to update.",
   "Monthly limit must be greater than 0.", "Month must be between 1 and 12."}

\* what the connection has written when the store raises: the statements of
\* the unit of work have run only if it is the commit that fails
Pending(before, work, fault) == IF fault.at = "commit" THEN work ELSE before

\* what a writing function returns when the store raises in its unit of work:
\* ret is what it returns when the store does not raise
Caught(ret, prefix, fault) ==
  IF ret.msg \in ValidationMessages THEN ret
  ELSE Ret(FALSE, Wrapped(prefix, fault.cause), {})

\* the store after a writing function in whose unit of work the store raises:
\* work is the store the unit of work leaves when the store does not raise
RolledBack(ret, work, fault) ==
  IF ret.msg \in ValidationMessages THEN Store
  ELSE UnitOfWork(Store, Pending(Store, work, fault), TRUE)

\* add_transaction when the store raises: what it returns and the store it leaves
add_transaction_fails(user_id, transaction_type, category, amount, transaction_date, fault) ==
  LET ret == add_transaction_ret(user_id, transaction_type, category, amount, {}, transaction_date, Today, clock)
      work == [Store EXCEPT
                 !.transactions = add_transaction_rows(user_id, transaction_type, category, amount, {}, transaction_date, Today, clock),
                 !.nextId = add_transaction_seq(user_id, transaction_type, category, amount, {}, transaction_date, Today, clock)]
  IN [ret |-> Caught(ret, "Failed to add transaction", fault),
      store |-> RolledBack(ret, work, fault)]

\* update_transaction when the store raises
update_transaction_fails(transaction_id, user_id, kwargs, fault) ==
  LET ret == update_transaction_ret(transaction_id, user_id, kwargs)
      work == [Store EXCEPT !.transactions = update_transaction_rows(transaction_id, user_id, kwargs)]
  IN [ret |-> Caught(ret, "Failed to update transaction", fault),
      store |-> RolledBack(ret, work, fault)]

\* delete_transaction when the store raises
delete_transaction_fails(transaction_id, user_id, fault) ==
  LET ret == delete_transaction_ret(transaction_id, user_id)
      work == [Store EXCEPT !.transactions = delete_transaction_rows(transaction_id, user_id)]
  IN [ret |-> Caught(ret, "Failed to delete transaction", fault),
      store |-> RolledBack(ret, work, fault)]

\* set_budget when the store raises
set_budget_fails(user_id, category, monthly_limit, month, year, fault) ==
  LET ret == set_budget_ret(user_id, category, monthly_limit, month, year)
      work == [Store EXCEPT !.budgets = set_budget_rows(user_id, category, monthly_limit, month, year)]
  IN [ret |-> Caught(ret, "Failed to set budget", fault),
      store |-> RolledBack(ret, work, fault)]

\* the tables become those of store
StoreBecomes(store) ==
  /\ transactions' = store.transactions
  /\ nextId' = store.nextId
  /\ budgets' = store.budgets
  /\ users' = store.users
  /\ nextUserId' = store.nextUserId
  /\ UNCHANGED <<clock, plan, current_user_id, files>>

\* the budgets set while the store may raise: <<user_id, category, monthly_limit, month, year>>
FaultBudgetInputs == {<<1, "Food", 1, 12, 2024>>, <<1, "Food", 0, 12, 2024>>, <<1, "Food", 2, 12, 2024>>}

\* the keyword arguments of the updates made while the store may raise
FaultUpdateInputs ==
  {("amount" :> {2}), ("amount" :> {0}), ("type" :> {"income"}), EmptyDict}

AddTransactionFails ==
  \E user_id \in Users, transaction_type \in TypeInputs, category \in OrderCategoryInputs, amount \in AmountInputs, transaction_date \in PureDateArguments, fault \in StoreFaults :
    /\ nextId <= MaxTx
    /\ StoreBecomes(add_transaction_fails(user_id, transaction_type, category, amount, transaction_date, fault).store)

UpdateTransactionFails ==
  \E transaction_id \in IdInputs, user_id \in Users, kwargs \in FaultUpdateInputs, fault \in StoreFaults :
    StoreBecomes(update_transaction_fails(transaction_id, user_id, kwargs, fault).store)

DeleteTransactionFails ==
  \E transaction_id \in IdInputs, user_id \in Users, fault \in StoreFaults :
    StoreBecomes(delete_transaction_fails(transaction_id, user_id, fault).store)

SetBudgetFails ==
  \E b \in FaultBudgetInputs, fault \in StoreFaults :
    StoreBecomes(set_budget_fails(b[1], b[2], b[3], b[4], b[5], fault).store)

\* get_transactions when the store raises: what it returns, what it prints and
\* whether an exception leaves it (except Exception as e: print(...); return [])
get_transactions_fails(user_id, fault) ==
  [value |-> <<>>,
   printed |-> <<Wrapped("Error fetching transactions", fault.cause)>>,
   raised |-> FALSE]

\* get_total_income when the store raises in its get_transactions: the sum of no rows
get_total_income_fails(user_id, fault) ==
  [value |-> SumAmounts(get_transactions_fails(user_id, fault).value),
   printed |-> get_transactions_fails(user_id, fault).printed,
   raised |-> get_transactions_fails(user_id, fault).raised]

\* a query during which the store raises: its unit of work has written nothing
GetTransactionsFails ==
  \E user_id \in Users, fault \in StoreFaults :
    /\ get_transactions_fails(user_id, fault).raised = FALSE
    /\ StoreBecomes(UnitOfWork(Store, Store, TRUE))

NextFault ==
  \/ AddTransaction(Users, OrderCategoryInputs, AmountInputs, PureDateArguments)
  \/ DeleteTransaction(Users)
  \/ SetBudgetIn(FaultBudgetInputs)
  \/ AddTransactionFails
  \/ UpdateTransactionFails
  \/ DeleteTransactionFails
  \/ SetBudgetFails
  \/ GetTransactionsFails

\* the ledger and a budget, written by calls during which the store may raise
SpecFault == Init /\ [][NextFault]_vars

\* C19: when the store raises an error during add_transaction,
\* update_transaction, delete_transaction or set_budget (while the connection
\* is opened, while a statement runs or at the commit), the function returns
\* success = false with a message that wraps the cause (and no id), as a
\* return value and not as an exception, and the store after the call equals
\* the store before it: nothing of the unit of work is left.
C19_StoreErrorRollsBack ==
  \A fault \in StoreFaults :
    /\ \A user_id \in Users, transaction_type \in TypeInputs, category \in OrderCategoryInputs, amount \in AmountInputs, transaction_date \in PureDateArguments :
         ~AddInvalid(transaction_type, category, amount) =>
           /\ add_transaction_fails(user_id, transaction_type, category, amount, transaction_date, fault).ret
                = Ret(FALSE, Wrapped("Failed to add transaction", fault.cause), {})
           /\ add_transaction_fails(user_id, transaction_type, category, amount, transaction_date, fault).store = Store
    /\ \A transaction_id \in IdInputs, user_id \in Users, kwargs \in FaultUpdateInputs :
         UpdateValid(kwargs) =>
           /\ update_transaction_fails(transaction_id, user_id, kwargs, fault).ret
                = Ret(FALSE, Wrapped("Failed to update transaction", fault.cause), {})
           /\ update_transaction_fails(transaction_id, user_id, kwargs, fault).store = Store
    /\ \A transaction_id \in IdInputs, user_id \in Users :
         /\ delete_transaction_fails(transaction_id, user_id, fault).ret
              = Ret(FALSE, Wrapped("Failed to delete transaction", fault.cause), {})
         /\ delete_transaction_fails(transaction_id, user_id, fault).store = Store
    /\ \A b \in FaultBudgetInputs :
         ~BudgetInvalid(b[2], b[3], b[4]) =>
           /\ set_budget_fails(b[1], b[2], b[3], b[4], b[5], fault).ret
                = Ret(FALSE, Wrapped("Failed to set budget", fault.cause), {})
           /\ set_budget_fails(b[1], b[2], b[3], b[4], b[5], fault).store = Store

\* the fault at the commit
CommitFault == CHOOSE fault \in StoreFaults : fault.at = "commit"

\* owner 1 has a row and a budget of 1 for Food: a delete of the row, an
\* update of its amount, an add and a change of the budget to 2 have each
\* written to the connection when the commit fails, and the store after each
\* call is the store before it
C19_Witness ==
  /\ OwnsTransaction(1, 1)
  /\ nextId <= MaxTx
  /\ ExistingBudgets(1, "Food", 12, 2024) # {}
  /\ delete_transaction_rows(1, 1) # transactions
  /\ delete_transaction_fails(1, 1, CommitFault).store = Store
  /\ delete_transaction_fails(1, 1, CommitFault).ret.ok = FALSE
  /\ \E kwargs \in FaultUpdateInputs :
       /\ update_transaction_rows(1, 1, kwargs) # transactions
       /\ update_transaction_fails(1, 1, kwargs, CommitFault).store = Store
  /\ add_transaction_rows(1, "expense", "Food", 1, {}, {<<2024, 12, 31>>}, Today, clock) # transactions
  /\ add_transaction_fails(1, "expense", "Food", 1, {<<2024, 12, 31>>}, CommitFault).store = Store
  /\ set_budget_rows(1, "Food", 2, 12, 2024) # budgets
  /\ set_budget_fails(1, "Food", 2, 12, 2024, CommitFault).store = Store

----------------------------------------------------------------------------
(* Store errors during a query.                                            *)

\* C20: when the store raises during a query, the function prints nothing,
\* and where the same query would have returned an empty result had the
\* store not raised (no rows from get_transactions, the total 0 from
\* get_total_income), the caller is given something else: an exception or a
\* different value.
C20_QueryFailureIsSurfaced ==
  \A user_id \in Users, fault \in StoreFaults :
    /\ get_transactions_fails(user_id, fault).printed = <<>>
    /\ get_transactions(user_id, {}, {}, {}, {}, {}) = <<>> =>
         \/ get_transactions_fails(user_id, fault).raised
         \/ get_transactions_fails(user_id, fault).value # <<>>
    /\ get_total_income_fails(user_id, fault).printed = <<>>
    /\ get_total_income(user_id, {}, {}) = 0 =>
         \/ get_total_income_fails(user_id, fault).raised
         \/ get_total_income_fails(user_id, fault).value # 0

----------------------------------------------------------------------------
(* Accounts and the session (src/auth.py).  A username, a password and a   *)
(* salt are strings: sequences of characters.                              *)

\* str.lower(), on the characters the usernames are written with
Lower(s) ==
  [i \in 1 .. Len(s) |->
     CASE s[i] = "A" -> "a"
       [] s[i] = "B" -> "b"
       [] OTHER -> s[i]]

\* str.strip(): the whitespace at both ends is removed
RECURSIVE Strip(_)
Strip(s) ==
  IF s = <<>> THEN s
  ELSE IF Head(s) = " " THEN Strip(Tail(s))
  ELSE IF s[Len(s)] = " " THEN Strip(SubSeq(s, 1, Len(s) - 1))
  ELSE s

\* hash_password: the SHA-256 digest of password + salt, taken as free of
\* collisions: the digest stands for the text it was computed from
hash_password(password, salt) == <<<<"sha256", password \o salt>>, salt>>

verify_password(password, password_hash, salt) ==
  hash_password(password, salt)[1] = password_hash

\* a duplicate check that finds nothing
Mut_UsersNamed(username) == {}

\* SELECT ... FROM users WHERE username = ?
UsersNamed(username) == {u \in users : u.username = username}

\* what register_user returns
register_user_ret(username, password) ==
  IF username = <<>> \/ Strip(username) = <<>>
  THEN Ret(FALSE, "Username cannot be empty.", {})
  ELSE IF password = <<>> \/ Len(password) < 4
  THEN Ret(FALSE, "Password must be at least 4 characters long.", {})
  ELSE IF UsersNamed(Lower(Strip(username))) # {}
  THEN Ret(FALSE, "Username already exists. Please choose a different one.", {})
  ELSE Ret(TRUE, "registered successfully!", {})

\* table users after register_user; salt is what secrets.token_hex(16) returns.
\* stored_hash "hash:salt" is the pair <<hash, salt>>
register_user_rows(username, password, salt) ==
  IF register_user_ret(username, password).ok
  THEN users \cup {[id |-> nextUserId,
                    username |-> Lower(Strip(username)),
                    password_hash |-> <<hash_password(password, salt)[1], salt>>,
                    created_at |-> clock]}
  ELSE users

\* what register_user does to the store
register_user(username, password, salt) ==
  /\ users' = register_user_rows(username, password, salt)
  /\ nextUserId' = IF register_user_ret(username, password).ok THEN nextUserId + 1 ELSE nextUserId
  /\ UNCHANGED <<transactions, nextId, budgets, clock, plan, current_user_id, files>>

\* the rows of table rows that username and password log in to
Authenticated(rows, username, password) ==
  {u \in rows : /\ u.username = Lower(Strip(username))
                /\ verify_password(password, u.password_hash[1], u.password_hash[2])}

\* what login_user returns
login_user_ret(username, password) ==
  IF username = <<>> \/ password = <<>>
  THEN Ret(FALSE, "Username and password are required.", {})
  ELSE IF Authenticated(users, username, password) = {}
  THEN Ret(FALSE, "Invalid username or password.", {})
  ELSE Ret(TRUE, "Welcome back", {u.id : u \in Authenticated(users, username, password)})

\* a login that sets the session to what it returns, found or not
Mut_login_user_session(username, password) == login_user_ret(username, password).id

\* _current_user_id after login_user
login_user_session(username, password) ==
  IF login_user_ret(username, password).ok
  THEN login_user_ret(username, password).id
  ELSE current_user_id

\* what login_user does to the session
login_user(username, password) ==
  /\ current_user_id' = login_user_session(username, password)
  /\ UNCHANGED <<transactions, nextId, budgets, clock, plan, users, nextUserId, files>>

\* _current_user_id after logout_user
logout_user_session == {}

logout_user ==
  /\ current_user_id' = logout_user_session
  /\ UNCHANGED <<transactions, nextId, budgets, clock, plan, users, nextUserId, files>>

get_current_user_id == current_user_id

is_authenticated == current_user_id # {}

\* usernames: "a", " A " (which is "a" once trimmed and lowered), "b", "" and " "
UsernameInputs == {<<"a">>, <<" ", "A", " ">>, <<"b">>, <<>>, <<" ">>}

\* passwords: two of 4 characters, one of 3, the empty one
PasswordInputs == {<<"a", "b", "c", "d">>, <<"w", "x", "y", "z">>, <<"a", "b", "c">>, <<>>}

\* salts
SaltInputs == {<<"0">>, <<"1">>}

\* the ledger functions are called with the owner ids of Users, registered or not
NextAccount ==
  \/ \E username \in UsernameInputs, password \in PasswordInputs, salt \in SaltInputs :
       register_user(username, password, salt)
  \/ \E username \in UsernameInputs, password \in PasswordInputs :
       login_user(username, password)
  \/ logout_user
  \/ AddTransaction(Users, OrderCategoryInputs, FilterAmountInputs, PureDateArguments)
  \/ SetBudgetIn(PureBudgetInputs)

\* accounts are registered, users log in and out, and the ledger functions are called
SpecAccount == Init /\ [][NextAccount]_vars

\* C21: for every call of login_user in every reachable state: a successful
\* call returns a user id, and after it that id is the current user and
\* is_authenticated is true; a failed call (unknown user, wrong password,
\* empty input) returns no user id and the session after it is the session
\* before it; after logout_user there is no current user and
\* is_authenticated is false.
C21_SessionState ==
  /\ \A username \in UsernameInputs, password \in PasswordInputs :
       LET ret == login_user_ret(username, password) IN
       /\ ret.ok =>
            /\ ret.id # {}
            /\ ret.id \subseteq {u.id : u \in users}
            /\ login_user_session(username, password) = ret.id
       /\ ~ret.ok =>
            /\ ret.id = {}
            /\ login_user_session(username, password) = current_user_id
  /\ logout_user_session = {}
  /\ is_authenticated <=> get_current_user_id # {}

\* user 1 is logged in and user 2 exists: a login with a wrong password fails
\* and leaves user 1 logged in, a login of user 2 succeeds and makes 2 the
\* current user
C21_Witness ==
  /\ get_current_user_id = {1}
  /\ is_authenticated
  /\ \E username \in UsernameInputs, password \in PasswordInputs :
       /\ UsersNamed(Lower(Strip(username))) # {}
       /\ ~login_user_ret(username, password).ok
       /\ login_user_session(username, password) = {1}
  /\ \E username \in UsernameInputs, password \in PasswordInputs :
       /\ login_user_ret(username, password).ok
       /\ login_user_session(username, password) = {2}

\* C22: usernames (and ids) are unique in table users in every reachable
\* state; a register_user whose username, trimmed and lower-cased, is that of
\* a stored user fails, with 'already exists' when the password is long
\* enough, and leaves table users as it was, so that every password logs in
\* to that username after the call exactly if it did before; an empty or
\* blank username and a password shorter than 4 characters are rejected and
\* no user is created.
C22_UniqueUsernames ==
  /\ \A u1 \in users, u2 \in users :
       (u1.username = u2.username \/ u1.id = u2.id) => u1 = u2
  /\ \A username \in UsernameInputs, password \in PasswordInputs, salt \in SaltInputs :
       LET ret == register_user_ret(username, password)
           after == register_user_rows(username, password, salt)
       IN
       /\ UsersNamed(Lower(Strip(username))) # {} =>
            /\ ~ret.ok
            /\ Len(password) >= 4 => ret.msg = "Username already exists. Please choose a different one."
            /\ after = users
            /\ \A p \in PasswordInputs :
                 Authenticated(after, username, p) = Authenticated(users, username, p)
       /\ (Strip(username) = <<>> \/ Len(password) < 4) =>
            /\ ~ret.ok
            /\ after = users

\* "a" is registered with the password abcd: registering " A " with wxyz is
\* refused with 'already exists', abcd still logs in and wxyz does not
C22_Witness ==
  /\ UsersNamed(<<"a">>) # {}
  /\ register_user_ret(<<" ", "A", " ">>, <<"w", "x", "y", "z">>)
       = Ret(FALSE, "Username already exists. Please choose a different one.", {})
  /\ login_user_ret(<<"a">>, <<"a", "b", "c", "d">>).ok
  /\ ~login_user_ret(<<"a">>, <<"w", "x", "y", "z">>).ok
  /\ Cardinality(users) = 2

----------------------------------------------------------------------------
(* Backups (src/backup.py).  A path is a tuple of its parts; the content   *)
(* of a file is a record: kind "database" with the store it is a copy of,  *)
(* kind "text" for bytes that SQLite does not read as a database, kind     *)
(* "directory" for a path that is not a file.                              *)

\* backup_dir / f"finance_backup_{timestamp}.db": the timestamp has the
\* resolution of a second
BackupName(now) == <<"backups", "finance_backup", now>>

\* db_path.parent / f"pre_restore_{timestamp}.db"
PreRestoreName(now) == <<"data", "pre_restore", now>>

\* backup_database: what it returns and the files it leaves; backup_path is
\* None or a path
backup_database_out(backup_path) ==
  LET path == IF backup_path = {} THEN BackupName(clock) ELSE OptionValue(backup_path)
  IN [ret |-> Ret(TRUE, "Database backed up successfully", {path}),
      files |-> [p \in DOMAIN files \cup {path} |->
                   IF p = path THEN [kind |-> "database", store |-> Store] ELSE files[p]]]

backup_database(backup_path) ==
  /\ files' = backup_database_out(backup_path).files
  /\ UNCHANGED <<transactions, nextId, budgets, clock, plan, users, nextUserId, current_user_id>>

\* list_backups: the files of the backup directory, the latest name first
list_backups(fs) ==
  LET S == {p \in DOMAIN fs : p[1] = "backups"}
  IN [i \in 1 .. Cardinality(S) |->
        CHOOSE p \in S : Cardinality({q \in S : q[3] > p[3]}) = i - 1]

\* restore_database: what it returns, the store and the files it leaves.
\* The database file is first copied to the pre-restore name, then the
\* backup file, as it is then, is copied over the database file.
restore_database_out(backup_path) ==
  IF backup_path \notin DOMAIN files
  THEN [ret |-> Ret(FALSE, "Backup file not found", {}), store |-> Store, files |-> files]
  ELSE IF files[backup_path].kind = "directory"
  THEN [ret |-> Ret(FALSE, "Invalid backup path", {}), store |-> Store, files |-> files]
  ELSE IF files[backup_path].kind # "database"
  THEN [ret |-> Ret(FALSE, "Invalid backup file (not a valid SQLite database)", {}), store |-> Store, files |-> files]
  ELSE LET copied == [p \in DOMAIN files \cup {PreRestoreName(clock)} |->
                        IF p = PreRestoreName(clock) THEN [kind |-> "database", store |-> Store] ELSE files[p]]
       IN [ret |-> Ret(TRUE, "Database restored successfully", {}),
           store |-> copied[backup_path].store,
           files |-> copied]

restore_database(backup_path) ==
  /\ transactions' = restore_database_out(backup_path).store.transactions
  /\ nextId' = restore_database_out(backup_path).store.nextId
  /\ budgets' = restore_database_out(backup_path).store.budgets
  /\ users' = restore_database_out(backup_path).store.users
  /\ nextUserId' = restore_database_out(backup_path).store.nextUserId
  /\ files' = restore_database_out(backup_path).files
  /\ UNCHANGED <<clock, plan, current_user_id>>

\* the paths restore_database is called with: backups, pre-restore copies, the
\* text file, the directory and a path where nothing is
PathInputs ==
  {BackupName(t) : t \in 0 .. MaxClock} \cup {PreRestoreName(t) : t \in 0 .. MaxClock}
    \cup {<<"notes">>, <<"folder">>, <<"nothing">>}

\* the store after init_database, and the files the user has put beside the
\* database: a text file and a directory
InitBackup ==
  /\ transactions = EmptyDict
  /\ nextId = 1
  /\ budgets = {}
  /\ clock = 0
  /\ plan = "index"
  /\ users = {}
  /\ nextUserId = 1
  /\ current_user_id = {}
  /\ files = (<<"notes">> :> [kind |-> "text", store |-> <<>>])
               @@ (<<"folder">> :> [kind |-> "directory", store |-> <<>>])

NextBackup ==
  \/ AddTransaction({1}, OrderCategoryInputs, FilterAmountInputs, PureDateArguments)
  \/ backup_database({})
  \/ \E backup_path \in PathInputs : restore_database(backup_path)
  \/ Tick

\* transactions are added, the database is backed up and restored, time passes
SpecBackup == InitBackup /\ [][NextBackup]_vars

\* C23: for every path restore_database is called with, in every reachable
\* state: when nothing is at the path, when the path is not a file or when
\* the file is not a database, the call fails and the database and the files
\* are as before; a call that fails leaves the database unchanged; after a
\* call that succeeds the database is what the backup file held when the
\* call was made, and a file other than the backup holds what the database
\* was before the call.  A backup is a copy of the database as it is when
\* backup_database is called.
C23_RestoreIsAllOrNothing ==
  /\ \A backup_path \in PathInputs :
       LET out == restore_database_out(backup_path) IN
       /\ (backup_path \notin DOMAIN files \/ files[backup_path].kind # "database") =>
            /\ ~out.ret.ok
            /\ out.files = files
       /\ ~out.ret.ok => out.store = Store
       /\ out.ret.ok =>
            /\ out.store = files[backup_path].store
            /\ \E p \in DOMAIN out.files \ {backup_path} : out.files[p] = [kind |-> "database", store |-> Store]
  /\ backup_database_out({}).files[BackupName(clock)] = [kind |-> "database", store |-> Store]

\* C24: a successful backup_database() without a path, in every reachable
\* state, writes a file that was not there before, leaves every file that
\* was there as it was, and list_backups reports one file more than before,
\* the new one among them.
C24_BackupsAreDistinct ==
  LET out == backup_database_out({}) IN
  out.ret.ok =>
    /\ out.ret.id \cap DOMAIN files = {}
    /\ \A p \in DOMAIN files : out.files[p] = files[p]
    /\ \E i \in DOMAIN list_backups(out.files) : {list_backups(out.files)[i]} = out.ret.id
    /\ Len(list_backups(out.files)) = Len(list_backups(files)) + 1

----------------------------------------------------------------------------
(* Owners.                                                                 *)

\* C25: in every reachable state every stored transaction and every stored
\* budget has an owner id that is the id of a row of table users, also when
\* add_transaction or set_budget was called with an owner id that was never
\* registered.
C25_OwnersExist ==
  /\ \A i \in DOMAIN transactions : transactions[i].user_id \in {u.id : u \in users}
  /\ \A b \in budgets : b.user_id \in {u.id : u \in users}

----------------------------------------------------------------------------
(* Editing a transaction.                                                  *)

\* the keyword arguments of an edit: each of the five fields alone, two fields
\* at once, a value of None or a keyword outside allowed_fields beside a field,
\* and calls that name no field with a value
EditInputs ==
  {("type" :> {"income"}),
   ("category" :> {"Salary"}),
   ("amount" :> {2}),
   ("description" :> {"lunch"}),
   ("date" :> {<<2025, 1, 1>>}),
   ("date" :> {<<2025, 1, 1>>}) @@ ("amount" :> {2}),
   ("description" :> {}) @@ ("amount" :> {2}),
   ("id" :> {9}) @@ ("description" :> {"lunch"}),
   ("id" :> {9}) @@ ("created_at" :> {9}),
   ("amount" :> {}) @@ ("date" :> {}),
   EmptyDict}

NextEdit ==
  \/ AddTransaction(YearUsers, OrderCategoryInputs, FilterAmountInputs, PureDateArguments)
  \/ \E transaction_id \in IdInputs, kwargs \in EditInputs : update_transaction(transaction_id, 1, kwargs)

\* the ledger of one owner whose transactions are edited
SpecEdit == Init /\ [][NextEdit]_vars

\* what a row adds to an owner's total of a kind over the dates from start to end
Counted(row, user_id, kind, start, end) ==
  IF row.user_id = user_id /\ row.type = kind
       /\ row.date >= IsoFormat(start) /\ row.date <= IsoFormat(end)
  THEN row.amount ELSE 0

\* the months of the dates the ledger of SpecEdit holds
EditMonths == {<<12, 2024>>, <<1, 2025>>}

\* what the rows mapped by the ids of S add to an owner's total of a kind
RECURSIVE CountedSum(_, _, _, _, _, _)
CountedSum(rows, S, user_id, kind, start, end) ==
  IF S = {} THEN 0
  ELSE LET j == CHOOSE x \in S : TRUE
       IN Counted(rows[j], user_id, kind, start, end)
            + CountedSum(rows, S \ {j}, user_id, kind, start, end)

\* the totals and the monthly report of a month count every stored row of
\* that month with the values it holds now
EditReports ==
  \A m \in EditMonths :
    LET start == ReportStartDate(m[1], m[2])
        end == ReportEndDate(m[1], m[2])
        report == generate_monthly_report(1, m[1], m[2])
    IN /\ get_total_income(1, {start}, {end}) = CountedSum(transactions, DOMAIN transactions, 1, "income", start, end)
       /\ get_total_expenses(1, {start}, {end}) = CountedSum(transactions, DOMAIN transactions, 1, "expense", start, end)
       /\ report.total_income = CountedSum(transactions, DOMAIN transactions, 1, "income", start, end)
       /\ report.total_expenses = CountedSum(transactions, DOMAIN transactions, 1, "expense", start, end)
       /\ report.transaction_count
            = Cardinality({j \in DOMAIN transactions :
                            transactions[j].date >= IsoFormat(start) /\ transactions[j].date <= IsoFormat(end)})

\* update_transaction(i, 1, kwargs) sets the effective fields of row i and
\* nothing else, or fails on a call without an effective field
EditFrame(i, kwargs) ==
  LET effective == {k \in DOMAIN kwargs \cap allowed_fields : kwargs[k] # {}}
      ret == update_transaction_ret(i, 1, kwargs)
      after == update_transaction_rows(i, 1, kwargs)
  IN /\ (effective = {}) =>
          (ret = Ret(FALSE, "No valid fields to update.", {}) /\ after = transactions)
     /\ ret.ok =>
          /\ effective # {}
          /\ DOMAIN after = DOMAIN transactions
          /\ \A j \in DOMAIN transactions \ {i} : after[j] = transactions[j]
          /\ \A f \in DOMAIN transactions[i] \ effective : after[i][f] = transactions[i][f]
          /\ \A f \in effective \ {"date"} : {after[i][f]} = kwargs[f]
          /\ ("date" \in effective) => ({after[i].date} = {IsoFormat(d) : d \in kwargs["date"]})
     /\ (OwnsTransaction(i, 1) /\ UpdateValid(kwargs)) => ret.ok

\* C26: a successful update_transaction sets exactly the supplied fields among
\* type, category, amount, description and date to the supplied values; id,
\* owner, created_at, the fields not supplied and every other transaction stay
\* as they were; keywords outside the field set and values of None are
\* ignored, and a call with no effective field fails with the table unchanged;
\* the totals and monthly reports computed in any state, those reached by an
\* update among them, count each row with the values it holds then: a changed
\* date moves its amount to the new month.
C26_UpdateSetsSuppliedFields ==
  /\ \A i \in IdInputs, kwargs \in EditInputs : EditFrame(i, kwargs)
  /\ EditReports

\* a state only updates lead to (rows are added with amount 1 on 2024-12-31,
\* as expenses or income of category Food): a row moved to January 2025 with
\* amount 2 and a description, counted by the report of January and not by
\* that of December, beside a row that a further update would change
C26_Witness ==
  \E i \in DOMAIN transactions, j \in DOMAIN transactions :
    /\ i # j
    /\ transactions[i].date = 20250101
    /\ transactions[i].amount = 2
    /\ transactions[i].description = "lunch"
    /\ transactions[i].type = "expense"
    /\ transactions[j].date = 20241231
    /\ generate_monthly_report(1, 1, 2025).total_expenses = 2
    /\ generate_monthly_report(1, 12, 2024).transaction_count = 1
    /\ update_transaction_ret(j, 1, ("category" :> {"Salary"})).ok
    /\ update_transaction_rows(j, 1, ("category" :> {"Salary"}))[j].category = "Salary"

----------------------------------------------------------------------------
(* Deleting a transaction.                                                 *)

\* the windows the totals are asked for: each month of BudgetQueries, and all dates
DeleteWindows ==
  {<<{ReportStartDate(q[1], q[2])}, {ReportEndDate(q[1], q[2])}>> : q \in BudgetQueries}
    \cup {<<{}, {}>>}

\* the first and the last date of a window, for Counted
WindowStart(w) == IF w[1] = {} THEN <<1, 1, 1>> ELSE OptionValue(w[1])
WindowEnd(w) == IF w[2] = {} THEN <<9999, 12, 31>> ELSE OptionValue(w[2])

\* delete_transaction(i, u) succeeds exactly on a row of u and then removes
\* that row and no other; the totals of u over the remaining rows are those of
\* before less the amount of the row, in the windows that hold its date
DeleteFrame(i, u) ==
  LET ret == delete_transaction_ret(i, u)
      after == delete_transaction_rows(i, u)
  IN /\ ret.ok = OwnsTransaction(i, u)
     /\ ~ret.ok => (ret = NotFound /\ after = transactions)
     /\ ret.ok =>
          /\ DOMAIN after = DOMAIN transactions \ {i}
          /\ \A j \in DOMAIN after : after[j] = transactions[j]
          /\ \A w \in DeleteWindows, kind \in {"income", "expense"} :
               CountedSum(after, DOMAIN after, u, kind, WindowStart(w), WindowEnd(w))
                 = CountedSum(transactions, DOMAIN transactions, u, kind, WindowStart(w), WindowEnd(w))
                     - (IF transactions[i].type = kind
                             /\ transactions[i].date >= IsoFormat(WindowStart(w))
                             /\ transactions[i].date <= IsoFormat(WindowEnd(w))
                        THEN transactions[i].amount ELSE 0)

\* the totals count every stored row of the owner, the kind and the window
DeleteTotals ==
  \A w \in DeleteWindows, u \in Users :
    /\ get_total_income(u, w[1], w[2])
         = CountedSum(transactions, DOMAIN transactions, u, "income", WindowStart(w), WindowEnd(w))
    /\ get_total_expenses(u, w[1], w[2])
         = CountedSum(transactions, DOMAIN transactions, u, "expense", WindowStart(w), WindowEnd(w))

\* get_transaction_by_id returns the row of that id if the caller owns it, else None
DeleteLookup ==
  \A i \in IdInputs, u \in Users :
    get_transaction_by_id(i, u)
      = {transactions[j] : j \in {j \in DOMAIN transactions : j = i /\ transactions[j].user_id = u}}

\* a step that is a successful delete_transaction(i, u): afterwards the row is
\* not found, a second delete of it fails and changes nothing, and the budgets
\* and the id counter are as before
DeleteStep(i, u) ==
  (i \notin DOMAIN transactions' /\ delete_transaction_ret(i, u).ok
     /\ transactions' = delete_transaction_rows(i, u)) =>
    /\ get_transaction_by_id(i, u)' = {}
    /\ delete_transaction_ret(i, u)' = NotFound
    /\ delete_transaction_rows(i, u)' = transactions'
    /\ budgets' = budgets
    /\ nextId' = nextId

----------------------------------------------------------------------------
(* The stored rows are valid.                                              *)

\* calls of update_transaction with an invalid value beside valid ones
MixedInputs ==
  {("amount" :> {0}) @@ ("description" :> {"q"}),
   ("amount" :> {2}) @@ ("type" :> {"transfer"}),
   ("category" :> {"Gift"}) @@ ("date" :> {<<2025, 1, 1>>}),
   ("category" :> {"Food"}) @@ ("amount" :> {0 - 1}),
   ("type" :> {""}) @@ ("category" :> {"Salary"}) @@ ("amount" :> {2})}

\* amount > 0, type income or expense, category in the combined list
RowValid(row) ==
  /\ row.amount > 0
  /\ row.type \in {"income", "expense"}
  /\ row.category \in ALL_CATEGORIES

\* C28: in every state reachable by add_transaction, update_transaction and
\* delete_transaction, called with valid and invalid arguments, every stored
\* transaction has an amount greater than zero, a type of income or expense
\* and a category of the combined category list; an update_transaction with
\* an invalid value in any field is rejected as a whole, the valid fields
\* beside it not being written either.
C28_StoredRowsAreValid ==
  /\ \A i \in DOMAIN transactions : RowValid(transactions[i])
  /\ \A i \in IdInputs, u \in Users, kwargs \in UpdateInputs(CategoryInputs) \cup MixedInputs :
       LET after == update_transaction_rows(i, u, kwargs) IN
       /\ (after # transactions) => (\A j \in DOMAIN after : RowValid(after[j]))
       /\ (DOMAIN UpdatesOf(kwargs) # {} /\ ~UpdateValid(kwargs)) =>
            /\ ~update_transaction_ret(i, u, kwargs).ok
            /\ after = transactions
  /\ \A u \in Users, t \in TypeInputs, c \in CategoryInputs, a \in AmountInputs \cup {0 - 1}, d \in DateArguments :
       LET after == add_transaction_rows(u, t, c, a, {}, d, Today, clock) IN
       /\ (after # transactions) => (\A j \in DOMAIN after : RowValid(after[j]))
       /\ (t \notin {"income", "expense"} \/ c \notin ALL_CATEGORIES \/ a <= 0) => (after = transactions)

\* an income and an expense are stored, and updates of the expense with an
\* invalid amount, type or category beside a valid field are refused
C28_Witness ==
  \E i \in DOMAIN transactions, j \in DOMAIN transactions :
    /\ transactions[i].type = "expense"
    /\ transactions[j].type = "income"
    /\ transactions[i].amount = 2
    /\ update_transaction_ret(i, transactions[i].user_id, ("amount" :> {2}) @@ ("type" :> {"income"})).ok
    /\ \A kwargs \in MixedInputs :
         /\ ~update_transaction_ret(i, transactions[i].user_id, kwargs).ok
         /\ update_transaction_rows(i, transactions[i].user_id, kwargs) = transactions

----------------------------------------------------------------------------
(* Owner isolation.                                                        *)

\* the rows and the budgets of one owner
OwnedRows(rows, u) == [i \in {j \in DOMAIN rows : rows[j].user_id = u} |-> rows[i]]
OwnedBudgets(rows, u) == {b \in rows : b.user_id = u}

\* the ids of the rows of owner u of a kind and a category (any, for {}) whose
\* date is in window w
OwnedIds(u, kinds, categories, w) ==
  {i \in DOMAIN transactions :
     /\ transactions[i].user_id = u
     /\ \A k \in kinds : transactions[i].type = k
     /\ \A c \in categories : transactions[i].category = c
     /\ transactions[i].date >= IsoFormat(WindowStart(w))
     /\ transactions[i].date <= IsoFormat(WindowEnd(w))}

\* the sum of the amounts of the rows with the ids of S
RECURSIVE AmountOf(_)
AmountOf(S) ==
  IF S = {} THEN 0
  ELSE LET j == CHOOSE x \in S : TRUE IN transactions[j].amount + AmountOf(S \ {j})

\* no call made with owner a changes a row or a budget of another owner b, and
\* no update changes the owner of a row
IsolatedWrites(a, b) ==
  /\ \A t \in TypeInputs, c \in BudgetCategoryInputs, amount \in BudgetAmountInputs, d \in BudgetDateArguments :
       OwnedRows(add_transaction_rows(a, t, c, amount, {}, d, Today, clock), b) = OwnedRows(transactions, b)
  /\ \A i \in IdInputs :
       /\ OwnedRows(delete_transaction_rows(i, a), b) = OwnedRows(transactions, b)
       /\ \A kwargs \in UpdateInputs(BudgetCategoryInputs) :
            /\ OwnedRows(update_transaction_rows(i, a, kwargs), b) = OwnedRows(transactions, b)
            /\ \A j \in DOMAIN transactions :
                 update_transaction_rows(i, a, kwargs)[j].user_id = transactions[j].user_id
  /\ \A x \in BudgetInputs :
       OwnedBudgets(set_budget_rows(a, x[2], x[3], x[4], x[5]), b) = OwnedBudgets(budgets, b)

\* what get_transactions and the totals return to owner b is made of the rows
\* of b alone
IsolatedQueries(b) ==
  \A w \in DeleteWindows, kinds \in {{}, {"income"}, {"expense"}}, categories \in {{}, {"Food"}} :
    LET rows == get_transactions(b, w[1], w[2], categories, kinds, {}) IN
    /\ \A k \in DOMAIN rows : rows[k].user_id = b /\ rows[k].id \in DOMAIN transactions /\ rows[k] = transactions[rows[k].id]
    /\ {rows[k].id : k \in DOMAIN rows} = OwnedIds(b, kinds, categories, w)
    /\ Len(rows) = Cardinality(OwnedIds(b, kinds, categories, w))
    /\ get_total_income(b, w[1], w[2]) = AmountOf(OwnedIds(b, {"income"}, {}, w))
    /\ get_total_expenses(b, w[1], w[2]) = AmountOf(OwnedIds(b, {"expense"}, {}, w))

\* the reports of owner b count and add up the rows of b alone
IsolatedReports(b) ==
  /\ \A q \in BudgetQueries :
       LET w == <<{ReportStartDate(q[1], q[2])}, {ReportEndDate(q[1], q[2])}>>
           report == generate_monthly_report(b, q[1], q[2])
       IN /\ report.transaction_count = Cardinality(OwnedIds(b, {}, {}, w))
          /\ report.total_income = AmountOf(OwnedIds(b, {"income"}, {}, w))
          /\ report.total_expenses = AmountOf(OwnedIds(b, {"expense"}, {}, w))
          /\ \A c \in DOMAIN report.income_by_category :
               report.income_by_category[c] = AmountOf(OwnedIds(b, {"income"}, {c}, w))
          /\ \A c \in DOMAIN report.expenses_by_category :
               report.expenses_by_category[c] = AmountOf(OwnedIds(b, {"expense"}, {c}, w))
  /\ \A y \in QueryYears :
       LET w == <<{date(y, 1, 1)}, {date(y, 12, 31)}>>
           report == generate_yearly_report(b, y)
       IN /\ report.transaction_count = Cardinality(OwnedIds(b, {}, {}, w))
          /\ report.total_income = AmountOf(OwnedIds(b, {"income"}, {}, w))
          /\ report.total_expenses = AmountOf(OwnedIds(b, {"expense"}, {}, w))

\* the budget status and the alerts of owner b list the budgets of b alone,
\* with what the expenses of b alone have spent
IsolatedBudgets(b) ==
  \A q \in BudgetQueries :
    LET w == <<{BudgetStartDate(q[1], q[2])}, {BudgetEndDate(q[1], q[2])}>>
        status == check_budget_status(b, q[1], q[2]).budgets
        alerts == get_budget_alerts(b, q[1], q[2])
        mine == {x \in OwnedBudgets(budgets, b) : x.month = q[1] /\ x.year = q[2]}
    IN /\ Len(status) = Cardinality(mine)
       /\ \A k \in DOMAIN status :
            /\ \E x \in mine : x.category = status[k].category /\ x.monthly_limit = status[k].limit
            /\ status[k].spent = AmountOf(OwnedIds(b, {"expense"}, {status[k].category}, w))
       /\ \A k \in DOMAIN alerts :
            /\ \E x \in mine : x.category = alerts[k].category /\ x.monthly_limit = alerts[k].limit
            /\ alerts[k].spent = AmountOf(OwnedIds(b, {"expense"}, {alerts[k].category}, w))

\* C29: the owner of a transaction never changes, and no add_transaction,
\* update_transaction, delete_transaction or set_budget called with owner A
\* changes what a query, a budget status or a report returns to another
\* owner B: the calls of A leave every row and every budget of B as it was,
\* and what B is returned is made of the rows and the budgets of B alone, no
\* row of A being returned or counted.
C29_OwnerIsolation ==
  /\ \A a \in Users : \A b \in Users \ {a} : IsolatedWrites(a, b)
  /\ \A b \in Users : IsolatedQueries(b) /\ IsolatedReports(b) /\ IsolatedBudgets(b)

\* both owners have an expense of Food on the same day, of different
\* amounts, and owner 1 has a budget for Food in that month: the status of
\* owner 1 shows the own expense alone, owner 2 is shown no budget and one
\* row, and a delete by owner 1 removes the row of owner 1 and not the other
C29_Witness ==
  \E i \in DOMAIN transactions, j \in DOMAIN transactions :
    /\ transactions[i].user_id = 1
    /\ transactions[j].user_id = 2
    /\ transactions[i].type = "expense"
    /\ transactions[j].type = "expense"
    /\ transactions[i].category = transactions[j].category
    /\ transactions[i].date = transactions[j].date
    /\ transactions[i].amount # transactions[j].amount
    /\ Len(check_budget_status(1, 12, 2024).budgets) = 1
    /\ check_budget_status(1, 12, 2024).budgets[1].spent = transactions[i].amount
    /\ Len(check_budget_status(2, 12, 2024).budgets) = 0
    /\ Len(get_transactions(2, {}, {}, {}, {}, {})) = 1
    /\ get_total_expenses(2, {}, {}) = transactions[j].amount
    /\ delete_transaction_ret(i, 1).ok
    /\ ~delete_transaction_ret(j, 1).ok

----------------------------------------------------------------------------
(* The breakdowns of the reports.                                          *)

\* sum(d.values())
RECURSIVE SumValues(_)
SumValues(d) ==
  IF DOMAIN d = {} THEN 0
  ELSE LET k == CHOOSE x \in DOMAIN d : TRUE
       IN d[k] + SumValues([x \in DOMAIN d \ {k} |-> d[x]])

\* the months the breakdowns are read for: those of the rows, and one without rows
BreakdownMonths == {<<6, 2024>>, <<12, 2024>>, <<1, 2025>>}

\* a mapping of a report holds, for each category with a row of the kind in
\* the window and for no other, the sum of the amounts of these rows
BreakdownOf(mapping, user_id, kind, w) ==
  /\ DOMAIN mapping = {c \in ALL_CATEGORIES : OwnedIds(user_id, {kind}, {c}, w) # {}}
  /\ \A c \in DOMAIN mapping :
       /\ mapping[c] = AmountOf(OwnedIds(user_id, {kind}, {c}, w))
       /\ mapping[c] # 0

\* the breakdowns of a report over window w agree with its totals and its count
BreakdownsConsistent(report, total_income, total_expenses, user_id, w) ==
  /\ SumValues(report.income_by_category) = total_income
  /\ SumValues(report.expenses_by_category) = total_expenses
  /\ total_income = get_total_income(user_id, w[1], w[2])
  /\ total_expenses = get_total_expenses(user_id, w[1], w[2])
  /\ BreakdownOf(report.income_by_category, user_id, "income", w)
  /\ BreakdownOf(report.expenses_by_category, user_id, "expense", w)
  /\ report.transaction_count
       = Cardinality(UNION {OwnedIds(user_id, {"income"}, {c}, w) : c \in DOMAIN report.income_by_category})
           + Cardinality(UNION {OwnedIds(user_id, {"expense"}, {c}, w) : c \in DOMAIN report.expenses_by_category})
  /\ report.transaction_count = Cardinality(OwnedIds(user_id, {}, {}, w))

====
